---- MODULE Spec2Model ----
(***************************************************************************)
(* Model of stormlabeler/utils/human_polygons.py: the vertex-list codec,   *)
(* the pixel-to-grid mapper, the polygon-to-mask rasterizer and the NetCDF *)
(* persistence of human-drawn polygons; and of the run of the script       *)
(* stormlabeler/scripts/capture_human_polygons.py.                         *)
(*                                                                         *)
(* Numbers.  Where the inputs are small fractions on which float64 is      *)
(* exact, Python floats are modelled as exact rationals <<n, d>> in lowest *)
(* terms with d > 0; NaN is <<0, 0>>.  The float32 variables of the NetCDF *)
(* file are modelled by correct rounding to a 24-bit significand.  The     *)
(* last sections model float64 itself, with its 53-bit significand and     *)
(* round-to-nearest-even, and the mapper on such doubles (SpecMapper64).   *)
(* Arrays are 1-indexed sequences; the values they hold (panel rows,       *)
(* polygon indices, first-vertex indices) stay 0-based as in the code.     *)
(***************************************************************************)
EXTENDS Integers, Sequences, FiniteSets, TLC

VARIABLES
    op,       \* name of the function whose call completed last
    args,     \* the arguments of that call
    ret,      \* its outcome: a returned value or a raised error
    fs,       \* the NetCDF file at output_file_name and its parent directory
    written,  \* history: the arguments of the write_polygons call that made fs
    open_datasets,  \* number of netCDF4 datasets opened and not closed
    run       \* the run of the script capture_human_polygons.py

vars == <<op, args, ret, fs, written, open_datasets, run>>

----------------------------------------------------------------------------
(* Bounds of the model *)

MaxPolygons == 2      \* longest polygon list passed to any call

----------------------------------------------------------------------------
(* Python floats as exact rationals *)

Abs(n) == IF n < 0 THEN -n ELSE n

RECURSIVE GCD(_, _)
GCD(a, b) == IF b = 0 THEN a ELSE GCD(b, a % b)

Rat(n, d) ==
    LET g == GCD(Abs(n), Abs(d))
        s == IF d < 0 THEN -1 ELSE 1
    IN  <<(s * n) \div g, (s * d) \div g>>

RInt(n) == <<n, 1>>
Half == <<1, 2>>
NaN == <<0, 0>>
IsNaN(v) == v[2] = 0

RAdd(a, b) == Rat(a[1] * b[2] + b[1] * a[2], a[2] * b[2])
RSub(a, b) == Rat(a[1] * b[2] - b[1] * a[2], a[2] * b[2])
RMul(a, b) == Rat(a[1] * b[1], a[2] * b[2])
RDiv(a, b) == Rat(a[1] * b[2], a[2] * b[1])
RLeq(a, b) == a[1] * b[2] <= b[1] * a[2]
RLt(a, b) == a[1] * b[2] < b[1] * a[2]
RFloor(a) == a[1] \div a[2]

\* numpy.float32: significand of 24 bits, round to nearest, ties to even
Float32Bits == 24

RECURSIVE Pow2(_)
Pow2(k) == IF k = 0 THEN 1 ELSE 2 * Pow2(k - 1)

\* least e >= 0 with a * 2^e >= d * 2^(Float32Bits - 1), for 0 < a/d < 2^Float32Bits;
\* scaled is a * 2^e and least is d * 2^(Float32Bits - 1)
RECURSIVE Float32Exponent(_, _, _)
Float32Exponent(scaled, least, e) ==
    IF scaled >= least THEN e
    ELSE Float32Exponent(2 * scaled, least, e + 1)

\* least k >= 0 with a < most * 2^k, where most is d * 2^Float32Bits
RECURSIVE Float32Shift(_, _, _)
Float32Shift(a, most, k) ==
    IF a < most THEN k ELSE Float32Shift(a, 2 * most, k + 1)

\* round half to even of q / d
RoundHalfEven(q, d) ==
    LET lo == q \div d
        twice == 2 * (q % d)
    IN  IF twice > d \/ (twice = d /\ lo % 2 = 1) THEN lo + 1 ELSE lo

\* the float32 value nearest to v: a significand of Float32Bits bits
ToFloat32(v) ==
    IF IsNaN(v) \/ v[1] = 0 THEN v
    ELSE LET a == Abs(v[1])
             d == v[2]
             sign == IF v[1] < 0 THEN -1 ELSE 1
             k == Float32Shift(a, d * Pow2(Float32Bits), 0)
             e == Float32Exponent(a, d * Pow2(Float32Bits - 1), 0)
         IN  IF k > 0
             THEN RInt(sign * RoundHalfEven(a, d * Pow2(k)) * Pow2(k))
             ELSE Rat(sign * RoundHalfEven(a * Pow2(e), d), Pow2(e))

----------------------------------------------------------------------------
(* Outcomes of a call *)

Return(v) == [status |-> "ok", value |-> v]
Raise(kind, info) == [status |-> "error", value |-> [kind |-> kind, info |-> info]]
IsOk(r) == r.status = "ok"
Raised(r, kind) == r.status = "error" /\ r.value.kind = kind

----------------------------------------------------------------------------
(* Sequence helpers *)

Range(s) == {s[i] : i \in 1..Len(s)}

RECURSIVE Concat(_)
Concat(ss) == IF ss = <<>> THEN <<>> ELSE Head(ss) \o Concat(Tail(ss))

SeqsUpTo(S, n) == UNION {[1..k -> S] : k \in 0..n}

----------------------------------------------------------------------------
(* Geometry primitives (stormlabeler.utils.polygons).  A polygon is its   *)
(* exterior ring: a closed sequence of vertices <<x, y>>.                 *)

Xs(polygon) == [i \in 1..Len(polygon) |-> polygon[i][1]]   \* polygon.exterior.xy[0]
Ys(polygon) == [i \in 1..Len(polygon) |-> polygon[i][2]]   \* polygon.exterior.xy[1]

vertex_arrays_to_polygon(x_coordinates, y_coordinates) ==
    LET ring == [i \in 1..Len(x_coordinates) |->
                    <<x_coordinates[i], y_coordinates[i]>>]
    IN  IF ring # <<>> /\ ring[1] # ring[Len(ring)]
        THEN Append(ring, ring[1]) ELSE ring

\* twice the signed area of triangle a, b, q
Cross(a, b, q) ==
    RSub(RMul(RSub(b[1], a[1]), RSub(q[2], a[2])),
         RMul(RSub(b[2], a[2]), RSub(q[1], a[1])))

Between(lo, hi, v) == (RLeq(lo, v) /\ RLeq(v, hi)) \/ (RLeq(hi, v) /\ RLeq(v, lo))

OnSegment(a, b, q) ==
    /\ Cross(a, b, q)[1] = 0
    /\ Between(a[1], b[1], q[1])
    /\ Between(a[2], b[2], q[2])

\* the edge a-b crosses the horizontal ray from q towards +x
RayCrosses(a, b, q) ==
    /\ RLt(q[2], a[2]) # RLt(q[2], b[2])
    /\ RLt(q[1],
           RAdd(a[1], RDiv(RMul(RSub(q[2], a[2]), RSub(b[1], a[1])),
                           RSub(b[2], a[2]))))

point_in_or_on_polygon(polygon_object, query_x_coordinate, query_y_coordinate) ==
    LET q == <<query_x_coordinate, query_y_coordinate>>
        edges == 1..(Len(polygon_object) - 1)
    IN  \/ \E i \in edges : OnSegment(polygon_object[i], polygon_object[i + 1], q)
        \/ Cardinality({i \in edges :
               RayCrosses(polygon_object[i], polygon_object[i + 1], q)}) % 2 = 1

----------------------------------------------------------------------------
(* Vertex list <-> polygon list codec *)

\* Mutant: a separator is appended after the last polygon too.
RECURSIVE polygon_list_to_vertex_list_sep_after_last(_)
polygon_list_to_vertex_list_sep_after_last(polygon_objects_grid_coords) ==
    IF polygon_objects_grid_coords = <<>>
    THEN [vertex_rows |-> <<>>, vertex_columns |-> <<>>,
          vertex_to_polygon_indices |-> <<>>]
    ELSE LET n == Len(polygon_objects_grid_coords)
             init == polygon_list_to_vertex_list_sep_after_last(
                         SubSeq(polygon_objects_grid_coords, 1, n - 1))
             this == polygon_objects_grid_coords[n]
         IN  [vertex_rows |-> init.vertex_rows \o Ys(this) \o <<NaN>>,
              vertex_columns |-> init.vertex_columns \o Xs(this) \o <<NaN>>,
              vertex_to_polygon_indices |->
                  init.vertex_to_polygon_indices
                      \o [j \in 1..Len(this) |-> n - 1] \o <<-1>>]

\* The loop of lines 110-122, polygon i (0-based) being element i + 1.
RECURSIVE polygon_list_to_vertex_list(_)
polygon_list_to_vertex_list(polygon_objects_grid_coords) ==
    IF polygon_objects_grid_coords = <<>>
    THEN [vertex_rows |-> <<>>, vertex_columns |-> <<>>,
          vertex_to_polygon_indices |-> <<>>]
    ELSE LET n == Len(polygon_objects_grid_coords)
             init == polygon_list_to_vertex_list(
                         SubSeq(polygon_objects_grid_coords, 1, n - 1))
             this == polygon_objects_grid_coords[n]
             sep == IF n = 1 THEN <<>> ELSE <<NaN>>
             sepIndex == IF n = 1 THEN <<>> ELSE <<-1>>
         IN  [vertex_rows |-> init.vertex_rows \o sep \o Ys(this),
              vertex_columns |-> init.vertex_columns \o sep \o Xs(this),
              vertex_to_polygon_indices |->
                  init.vertex_to_polygon_indices \o sepIndex
                      \o [j \in 1..Len(this) |-> n - 1]]

\* 0-based positions of the NaN elements: numpy.where(numpy.isnan(a))[0]
RECURSIVE NanIndices(_)
NanIndices(a) ==
    IF a = <<>> THEN <<>>
    ELSE LET n == Len(a)
             init == NanIndices(SubSeq(a, 1, n - 1))
         IN  IF IsNaN(a[n]) THEN Append(init, n - 1) ELSE init

\* general_utils.split_array_by_nan: the maximal runs of non-NaN elements
RECURSIVE split_array_by_nan(_)
split_array_by_nan(input_array) ==
    IF input_array = <<>> THEN <<>>
    ELSE LET n == Len(input_array)
             init == split_array_by_nan(SubSeq(input_array, 1, n - 1))
             last == input_array[n]
         IN  IF IsNaN(last) THEN init
             ELSE IF n = 1 \/ IsNaN(input_array[n - 1])
                  THEN Append(init, <<last>>)
                  ELSE [init EXCEPT ![Len(init)] = Append(@, last)]

\* Mutant: the first-vertex index of a polygon is the separator before it.
vertex_list_to_polygon_list_at_separator(vertex_rows, vertex_columns) ==
    IF Len(vertex_rows) = 0
    THEN Return([polygon_objects_grid_coords |-> <<>>,
                 polygon_to_first_vertex_indices |-> <<>>])
    ELSE LET nan_row_indices == NanIndices(vertex_rows)
             rowsBy == split_array_by_nan(vertex_rows)
             colsBy == split_array_by_nan(vertex_columns)
         IN  IF nan_row_indices # NanIndices(vertex_columns)
             THEN Raise("ValueError",
                        [what |-> "NaN's at different locations",
                         rows |-> nan_row_indices,
                         columns |-> NanIndices(vertex_columns)])
             ELSE Return([polygon_objects_grid_coords |->
                             [i \in 1..Len(rowsBy) |->
                                 vertex_arrays_to_polygon(colsBy[i], rowsBy[i])],
                          polygon_to_first_vertex_indices |->
                             <<0>> \o nan_row_indices])

\* Mutant: the NaN positions of the columns are not looked at; both arrays
\* are split where the rows have their NaN's.
vertex_list_to_polygon_list_rows_only(vertex_rows, vertex_columns) ==
    IF Len(vertex_rows) = 0
    THEN Return([polygon_objects_grid_coords |-> <<>>,
                 polygon_to_first_vertex_indices |-> <<>>])
    ELSE LET nan_row_indices == NanIndices(vertex_rows)
             rowsBy == split_array_by_nan(vertex_rows)
             colsBy == split_array_by_nan(
                           [i \in 1..Len(vertex_rows) |->
                               IF IsNaN(vertex_rows[i]) THEN NaN
                               ELSE vertex_columns[i]])
         IN  Return([polygon_objects_grid_coords |->
                         [i \in 1..Len(rowsBy) |->
                             vertex_arrays_to_polygon(colsBy[i], rowsBy[i])],
                     polygon_to_first_vertex_indices |->
                         <<0>> \o [i \in 1..Len(nan_row_indices) |->
                                     nan_row_indices[i] + 1]])

vertex_list_to_polygon_list(vertex_rows, vertex_columns) ==
    IF Len(vertex_rows) = 0
    THEN Return([polygon_objects_grid_coords |-> <<>>,
                 polygon_to_first_vertex_indices |-> <<>>])
    ELSE LET nan_row_indices == NanIndices(vertex_rows)
             nan_column_indices == NanIndices(vertex_columns)
         IN  IF nan_row_indices # nan_column_indices
             THEN Raise("ValueError",
                        [what |-> "NaN's at different locations",
                         rows |-> nan_row_indices,
                         columns |-> nan_column_indices])
             ELSE LET vertex_rows_by_polygon == split_array_by_nan(vertex_rows)
                      vertex_columns_by_polygon ==
                          split_array_by_nan(vertex_columns)
                  IN  Return(
                        [polygon_objects_grid_coords |->
                            [i \in 1..Len(vertex_rows_by_polygon) |->
                                vertex_arrays_to_polygon(
                                    vertex_columns_by_polygon[i],
                                    vertex_rows_by_polygon[i])],
                         polygon_to_first_vertex_indices |->
                            <<0>> \o [i \in 1..Len(nan_row_indices) |->
                                        nan_row_indices[i] + 1]])

----------------------------------------------------------------------------
(* Polygon-to-mask rasterizer *)

Ok == Return("checked")

\* Mutant: the panel columns are not compared with num_panel_columns.
check_polygons_no_column_limit(polygon_objects_grid_coords, num_panel_rows, num_panel_columns, panel_row_by_polygon, panel_column_by_polygon) ==
    LET num_polygons == Len(polygon_objects_grid_coords)
    IN  IF ~(num_panel_rows > 0) \/ ~(num_panel_columns > 0)
        THEN Raise("validation", "panel counts")
        ELSE IF num_polygons = 0
        THEN Ok
        ELSE IF \/ Len(panel_row_by_polygon) # num_polygons
                \/ Len(panel_column_by_polygon) # num_polygons
                \/ \E i \in 1..num_polygons :
                       \/ ~(panel_row_by_polygon[i] >= 0)
                       \/ ~(panel_row_by_polygon[i] < num_panel_rows)
                       \/ ~(panel_column_by_polygon[i] >= 0)
        THEN Raise("validation", "panel arrays")
        ELSE Ok

check_polygons(polygon_objects_grid_coords, num_panel_rows, num_panel_columns, panel_row_by_polygon, panel_column_by_polygon) ==
    LET num_polygons == Len(polygon_objects_grid_coords)
    IN  IF ~(num_panel_rows > 0)
        THEN Raise("validation", "num_panel_rows")
        ELSE IF ~(num_panel_columns > 0)
        THEN Raise("validation", "num_panel_columns")
        ELSE IF num_polygons = 0
        THEN Ok
        ELSE IF Len(panel_row_by_polygon) # num_polygons
        THEN Raise("validation", "panel_row_by_polygon dimensions")
        ELSE IF \E i \in 1..num_polygons : ~(panel_row_by_polygon[i] >= 0)
        THEN Raise("validation", "panel_row_by_polygon < 0")
        ELSE IF \E i \in 1..num_polygons :
                    ~(panel_row_by_polygon[i] < num_panel_rows)
        THEN Raise("validation", "panel_row_by_polygon >= num_panel_rows")
        ELSE IF Len(panel_column_by_polygon) # num_polygons
        THEN Raise("validation", "panel_column_by_polygon dimensions")
        ELSE IF \E i \in 1..num_polygons : ~(panel_column_by_polygon[i] >= 0)
        THEN Raise("validation", "panel_column_by_polygon < 0")
        ELSE IF \E i \in 1..num_polygons :
                    ~(panel_column_by_polygon[i] < num_panel_columns)
        THEN Raise("validation", "panel_column_by_polygon >= num_panel_columns")
        ELSE Ok

\* numpy.full((num_grid_rows, num_grid_columns), False)
FalseMatrix(num_grid_rows, num_grid_columns) ==
    [i \in 0..(num_grid_rows - 1) |-> [j \in 0..(num_grid_columns - 1) |-> FALSE]]

\* Mutant: a cell that is already marked is tested again (no `continue`).
MarkCells_overwrite(mask_matrix, polygon_object) ==
    [i \in DOMAIN mask_matrix |-> [j \in DOMAIN mask_matrix[i] |->
        point_in_or_on_polygon(polygon_object, RInt(j), RInt(i))]]

\* Mutant: `break` for `continue`: a cell that is already marked ends the
\* scan of its row.
MarkCells_break(mask_matrix, polygon_object) ==
    [i \in DOMAIN mask_matrix |-> [j \in DOMAIN mask_matrix[i] |->
        IF \E h \in DOMAIN mask_matrix[i] : h <= j /\ mask_matrix[i][h]
        THEN mask_matrix[i][j]
        ELSE point_in_or_on_polygon(polygon_object, RInt(j), RInt(i))]]

\* The double loop over the grid cells for one polygon (lines 223-230).
MarkCells(mask_matrix, polygon_object) ==
    [i \in DOMAIN mask_matrix |-> [j \in DOMAIN mask_matrix[i] |->
        IF mask_matrix[i][j] THEN TRUE
        ELSE point_in_or_on_polygon(polygon_object, RInt(j), RInt(i))]]

AllGeq(values, bound) == \A i \in 1..Len(values) : RLeq(bound, values[i])
AllLeq(values, bound) == \A i \in 1..Len(values) : RLeq(values[i], bound)

\* Mutant: a polygon is not validated once every cell is marked.
RECURSIVE OnePanelLoop_skip_when_full(_, _, _, _, _)
OnePanelLoop_skip_when_full(polygon_objects_grid_coords, k, mask_matrix, num_grid_rows, num_grid_columns) ==
    IF k > Len(polygon_objects_grid_coords)
       \/ \A i \in DOMAIN mask_matrix : \A j \in DOMAIN mask_matrix[i] :
              mask_matrix[i][j]
    THEN Return(mask_matrix)
    ELSE LET this == polygon_objects_grid_coords[k]
         IN  IF ~AllGeq(Xs(this), Rat(-1, 2))
                \/ ~AllLeq(Xs(this), RSub(RInt(num_grid_columns), Half))
                \/ ~AllGeq(Ys(this), Rat(-1, 2))
                \/ ~AllLeq(Ys(this), RSub(RInt(num_grid_rows), Half))
             THEN Raise("validation", "vertex outside grid")
             ELSE OnePanelLoop_skip_when_full(
                      polygon_objects_grid_coords, k + 1,
                      MarkCells(mask_matrix, this),
                      num_grid_rows, num_grid_columns)

\* The four checks of one polygon at lines 206-221.
CheckGridEnvelope(this, num_grid_rows, num_grid_columns) ==
    IF ~AllGeq(Xs(this), Rat(-1, 2))
    THEN Raise("validation", "grid column < -0.5")
    ELSE IF ~AllLeq(Xs(this), RSub(RInt(num_grid_columns), Half))
    THEN Raise("validation", "grid column > num_grid_columns - 0.5")
    ELSE IF ~AllGeq(Ys(this), Rat(-1, 2))
    THEN Raise("validation", "grid row < -0.5")
    ELSE IF ~AllLeq(Ys(this), RSub(RInt(num_grid_rows), Half))
    THEN Raise("validation", "grid row > num_grid_rows - 0.5")
    ELSE Ok

\* The loop over the polygons of one panel (lines 206-230), from polygon k on.
RECURSIVE OnePanelLoop(_, _, _, _, _)
OnePanelLoop(polygon_objects_grid_coords, k, mask_matrix, num_grid_rows, num_grid_columns) ==
    IF k > Len(polygon_objects_grid_coords)
    THEN Return(mask_matrix)
    ELSE LET this == polygon_objects_grid_coords[k]
             checked == CheckGridEnvelope(this, num_grid_rows, num_grid_columns)
         IN  IF ~IsOk(checked) THEN checked
             ELSE OnePanelLoop(polygon_objects_grid_coords, k + 1,
                               MarkCells(mask_matrix, this),
                               num_grid_rows, num_grid_columns)

polygons_to_mask_one_panel(polygon_objects_grid_coords, num_grid_rows, num_grid_columns) ==
    LET mask_matrix == FalseMatrix(num_grid_rows, num_grid_columns)
    IN  IF Len(polygon_objects_grid_coords) = 0
        THEN Return(mask_matrix)
        ELSE OnePanelLoop(polygon_objects_grid_coords, 1, mask_matrix,
                          num_grid_rows, num_grid_columns)

\* the elements of s at the given positions, in ascending order of position
RECURSIVE SelectAt(_, _, _)
SelectAt(s, positions, n) ==
    IF n = 0 THEN <<>>
    ELSE LET init == SelectAt(s, positions, n - 1)
         IN  IF n \in positions THEN Append(init, s[n]) ELSE init

\* numpy.unique(panel_coord_matrix, axis=0): the distinct rows, sorted
PairLess(p, q) == p[1] < q[1] \/ (p[1] = q[1] /\ p[2] < q[2])

RECURSIVE SortedPairs(_)
SortedPairs(S) ==
    IF S = {} THEN <<>>
    ELSE LET least == CHOOSE p \in S : \A q \in S \ {p} : PairLess(p, q)
         IN  <<least>> \o SortedPairs(S \ {least})

\* The loop over the distinct panels (lines 503-520), from panel i on.
RECURSIVE PanelLoop(_, _, _, _, _, _, _, _)
PanelLoop(panel_coord_matrix, i, mask_matrix, polygon_objects_grid_coords, num_grid_rows, num_grid_columns, panel_row_by_polygon, panel_column_by_polygon) ==
    IF i > Len(panel_coord_matrix)
    THEN Return(mask_matrix)
    ELSE LET this_panel_row == panel_coord_matrix[i][1]
             this_panel_column == panel_coord_matrix[i][2]
             these_polygon_objects ==
                 SelectAt(polygon_objects_grid_coords,
                          {k \in 1..Len(polygon_objects_grid_coords) :
                              /\ panel_row_by_polygon[k] = this_panel_row
                              /\ panel_column_by_polygon[k] = this_panel_column},
                          Len(polygon_objects_grid_coords))
             one == polygons_to_mask_one_panel(
                        these_polygon_objects, num_grid_rows, num_grid_columns)
         IN  IF ~IsOk(one) THEN one
             ELSE PanelLoop(panel_coord_matrix, i + 1,
                            [mask_matrix EXCEPT
                                ![this_panel_row][this_panel_column] = one.value],
                            polygon_objects_grid_coords, num_grid_rows,
                            num_grid_columns, panel_row_by_polygon,
                            panel_column_by_polygon)

polygons_to_mask(polygon_objects_grid_coords, num_grid_rows, num_grid_columns, num_panel_rows, num_panel_columns, panel_row_by_polygon, panel_column_by_polygon) ==
    IF ~(num_grid_rows > 0)
    THEN Raise("validation", "num_grid_rows")
    ELSE IF ~(num_grid_columns > 0)
    THEN Raise("validation", "num_grid_columns")
    ELSE LET checked == check_polygons(
                 polygon_objects_grid_coords, num_panel_rows, num_panel_columns,
                 panel_row_by_polygon, panel_column_by_polygon)
             mask_matrix ==
                 [j \in 0..(num_panel_rows - 1) |->
                     [k \in 0..(num_panel_columns - 1) |->
                         FalseMatrix(num_grid_rows, num_grid_columns)]]
             num_polygons == Len(polygon_objects_grid_coords)
         IN  IF ~IsOk(checked) THEN checked
             ELSE IF num_polygons = 0 THEN Return(mask_matrix)
             ELSE PanelLoop(
                      SortedPairs({<<panel_row_by_polygon[k],
                                     panel_column_by_polygon[k]>> :
                                       k \in 1..num_polygons}),
                      1, mask_matrix, polygon_objects_grid_coords,
                      num_grid_rows, num_grid_columns, panel_row_by_polygon,
                      panel_column_by_polygon)

----------------------------------------------------------------------------
(* Inputs of the rasterizer *)

Ring(vertices) == Append(vertices, vertices[1])

Rect(x1, y1, x2, y2) == Ring(<<<<x1, y1>>, <<x2, y1>>, <<x2, y2>>, <<x1, y2>>>>)

\* the unit square centred on grid cell (1, 1)
UnitSquare == Rect(Rat(1, 2), Rat(1, 2), Rat(3, 2), Rat(3, 2))
\* cells (0,0), (1,0), (2,0), (0,1), (0,2) and, on its hypotenuse, (1,1)
Triangle == Ring(<<<<RInt(0), RInt(0)>>, <<RInt(2), RInt(0)>>, <<RInt(0), RInt(2)>>>>)
\* contains no cell centre
Sliver == Ring(<<<<Rat(1, 10), Rat(1, 10)>>, <<Rat(2, 5), Rat(1, 10)>>,
                 <<Rat(1, 10), Rat(2, 5)>>>>)
\* every cell of a 2 x 2 grid
FullSquare == Rect(Rat(-1, 2), Rat(-1, 2), Rat(3, 2), Rat(3, 2))
\* reaches x = -1, outside every grid
Outside == Rect(RInt(-1), RInt(0), RInt(1), RInt(1))

GridPolygonChoices == {UnitSquare, Triangle, Sliver, FullSquare, Outside}

GridPolygonLists == SeqsUpTo(GridPolygonChoices, MaxPolygons)

Dims(gr, gc, pr, pc) ==
    [num_grid_rows |-> gr, num_grid_columns |-> gc,
     num_panel_rows |-> pr, num_panel_columns |-> pc]

MaskDimChoices ==
    {Dims(3, 3, 1, 2), Dims(2, 2, 2, 1), Dims(3, 2, 2, 2),
     Dims(0, 3, 1, 1), Dims(3, 3, 1, 0)}

Zeros(n) == [i \in 1..n |-> 0]

\* panel indices for n polygons that pass the check for 2 panels
GoodPanelArrays(n) == [1..n -> {0, 1}]

\* a wrong length, a negative index, an index beyond every panel count
BadPanelArrays(n) ==
    {Zeros(n + 1)}
    \cup (IF n = 0 THEN {}
          ELSE {Zeros(n - 1), [Zeros(n) EXCEPT ![1] = -1],
                [Zeros(n) EXCEPT ![n] = 2]})

PanelArrayChoices(n) ==
    (GoodPanelArrays(n) \X GoodPanelArrays(n))
    \cup (BadPanelArrays(n) \X {Zeros(n)})
    \cup ({Zeros(n)} \X BadPanelArrays(n))

----------------------------------------------------------------------------
(* The calls.  The functions keep no state between calls, so a behaviour  *)
(* is one call of a function (for the persistence codec: a write followed  *)
(* by reads of the file it made).                                          *)

Init ==
    /\ op = "none"
    /\ args = <<>>
    /\ ret = Return(<<>>)
    /\ fs = [directory |-> FALSE, exists |-> FALSE]
    /\ written = <<>>
    /\ open_datasets = 0
    /\ run = [pc |-> "not started"]

CallPolygonsToMask ==
    \E d \in MaskDimChoices, polys \in GridPolygonLists :
      \E pa \in PanelArrayChoices(Len(polys)) :
        /\ op = "none"
        /\ op' = "polygons_to_mask"
        /\ args' = [polygon_objects_grid_coords |-> polys,
                    num_grid_rows |-> d.num_grid_rows,
                    num_grid_columns |-> d.num_grid_columns,
                    num_panel_rows |-> d.num_panel_rows,
                    num_panel_columns |-> d.num_panel_columns,
                    panel_row_by_polygon |-> pa[1],
                    panel_column_by_polygon |-> pa[2]]
        /\ ret' = polygons_to_mask(polys, d.num_grid_rows, d.num_grid_columns,
                                   d.num_panel_rows, d.num_panel_columns,
                                   pa[1], pa[2])
        /\ UNCHANGED <<fs, written, open_datasets, run>>

NextMask == CallPolygonsToMask

SpecMask == Init /\ [][NextMask]_vars

----------------------------------------------------------------------------
(* Claims about the rasterizer *)

InEnvelope(polygon, a) ==
    /\ AllGeq(Xs(polygon), Rat(-1, 2))
    /\ AllLeq(Xs(polygon), Rat(2 * a.num_grid_columns - 1, 2))
    /\ AllGeq(Ys(polygon), Rat(-1, 2))
    /\ AllLeq(Ys(polygon), Rat(2 * a.num_grid_rows - 1, 2))

PanelArraysMatch(a) ==
    LET n == Len(a.polygon_objects_grid_coords)
    IN  /\ Len(a.panel_row_by_polygon) = n
        /\ Len(a.panel_column_by_polygon) = n
        /\ \A i \in 1..n :
            /\ a.panel_row_by_polygon[i] \in 0..(a.num_panel_rows - 1)
            /\ a.panel_column_by_polygon[i] \in 0..(a.num_panel_columns - 1)

PositiveMaskDims(a) ==
    /\ a.num_grid_rows > 0 /\ a.num_grid_columns > 0
    /\ a.num_panel_rows > 0 /\ a.num_panel_columns > 0

ValidMaskCall(a) ==
    /\ PositiveMaskDims(a)
    /\ PanelArraysMatch(a)
    /\ \A i \in 1..Len(a.polygon_objects_grid_coords) :
           InEnvelope(a.polygon_objects_grid_coords[i], a)

\* C1: for valid panel assignments and in-envelope vertices polygons_to_mask
\* returns a mask of shape (panel rows, panel columns, grid rows, grid
\* columns) with mask[j][k][m][n] true exactly when the point (x = n, y = m)
\* is in or on some polygon assigned to panel (j, k); a lone unit square
\* centred on cell (1, 1) marks only cell (1, 1) of its panel.
C1_MaskIsUnionOfAssignedPolygons ==
    (op = "polygons_to_mask" /\ ValidMaskCall(args)) =>
        /\ IsOk(ret)
        /\ DOMAIN ret.value = 0..(args.num_panel_rows - 1)
        /\ \A j \in 0..(args.num_panel_rows - 1) :
            /\ DOMAIN ret.value[j] = 0..(args.num_panel_columns - 1)
            /\ \A k \in 0..(args.num_panel_columns - 1) :
                /\ DOMAIN ret.value[j][k] = 0..(args.num_grid_rows - 1)
                /\ \A m \in 0..(args.num_grid_rows - 1) :
                    /\ DOMAIN ret.value[j][k][m] = 0..(args.num_grid_columns - 1)
                    /\ \A n \in 0..(args.num_grid_columns - 1) :
                        /\ ret.value[j][k][m][n] \in BOOLEAN
                        /\ ret.value[j][k][m][n] <=>
                             \E i \in 1..Len(args.polygon_objects_grid_coords) :
                                /\ args.panel_row_by_polygon[i] = j
                                /\ args.panel_column_by_polygon[i] = k
                                /\ point_in_or_on_polygon(
                                       args.polygon_objects_grid_coords[i],
                                       RInt(n), RInt(m))
                        /\ args.polygon_objects_grid_coords = <<UnitSquare>> =>
                             (ret.value[j][k][m][n] <=>
                                /\ j = args.panel_row_by_polygon[1]
                                /\ k = args.panel_column_by_polygon[1]
                                /\ m = 1 /\ n = 1)

\* Two overlapping polygons in panel (0, 1) of a 1 x 2 layout: cell (1, 1) is
\* in both, cell (2, 2) in neither, and panel (0, 0) has no polygon.
C1_Witness ==
    /\ op = "polygons_to_mask"
    /\ args.polygon_objects_grid_coords = <<Triangle, UnitSquare>>
    /\ args.panel_row_by_polygon = <<0, 0>>
    /\ args.panel_column_by_polygon = <<1, 1>>
    /\ args.num_grid_rows = 3 /\ args.num_grid_columns = 3
    /\ IsOk(ret)
    /\ ret.value[0][1][1][1] /\ ~ret.value[0][1][2][2]
    /\ \A m \in 0..2, n \in 0..2 : ~ret.value[0][0][m][n]

\* C9: polygons_to_mask raises a validation error, and so returns no mask,
\* whenever some polygon of the list has a vertex with x outside
\* [-0.5, num_grid_columns - 0.5] or y outside [-0.5, num_grid_rows - 0.5],
\* wherever the polygon stands in the list and whatever its panel.
C9_OutOfEnvelopeAlwaysFails ==
    (/\ op = "polygons_to_mask"
     /\ \E i \in 1..Len(args.polygon_objects_grid_coords) :
           ~InEnvelope(args.polygon_objects_grid_coords[i], args))
        => Raised(ret, "validation")

\* The out-of-envelope polygon comes second, in the one panel whose every
\* cell the first polygon has already marked.
C9_Witness ==
    /\ op = "polygons_to_mask"
    /\ args.polygon_objects_grid_coords = <<FullSquare, Outside>>
    /\ args.num_grid_rows = 2 /\ args.num_grid_columns = 2
    /\ args.panel_row_by_polygon = <<1, 1>>
    /\ args.panel_column_by_polygon = <<0, 0>>
    /\ PanelArraysMatch(args)
    /\ \A m \in 0..1, n \in 0..1 :
           point_in_or_on_polygon(FullSquare, RInt(n), RInt(m))
    /\ Raised(ret, "validation")

\* C10 as stated: polygons_to_mask raises a validation error whenever a panel
\* array is not length-matched with the polygon list or holds an index
\* outside its range, for every list length, the empty list included.
C10_BadPanelArraysAlwaysFail ==
    (op = "polygons_to_mask" /\ ~PanelArraysMatch(args))
        => Raised(ret, "validation")

\* C10 amended: the panel arrays are checked for a non-empty polygon list
\* only; with an empty list, positive dimensions and any panel arrays the
\* call returns the all-false mask.
C10_BadPanelArraysFailIfNonEmpty ==
    op = "polygons_to_mask" =>
        /\ (/\ Len(args.polygon_objects_grid_coords) > 0
            /\ ~PanelArraysMatch(args))
              => Raised(ret, "validation")
        /\ (/\ Len(args.polygon_objects_grid_coords) = 0
            /\ PositiveMaskDims(args))
              => /\ IsOk(ret)
                 /\ \A j \in DOMAIN ret.value : \A k \in DOMAIN ret.value[j] :
                      \A m \in DOMAIN ret.value[j][k] :
                        \A n \in DOMAIN ret.value[j][k][m] :
                          ~ret.value[j][k][m][n]

\* A panel column equal to num_panel_columns, in last place, with every other
\* argument valid.
C10_Witness ==
    /\ op = "polygons_to_mask"
    /\ PositiveMaskDims(args)
    /\ args.polygon_objects_grid_coords = <<UnitSquare, Sliver>>
    /\ args.panel_row_by_polygon = <<0, 0>>
    /\ args.panel_column_by_polygon = <<0, args.num_panel_columns>>
    /\ Raised(ret, "validation")

----------------------------------------------------------------------------
(* Calls of the codec *)

CallPolygonListToVertexList ==
    \E polys \in GridPolygonLists :
        /\ op = "none"
        /\ op' = "polygon_list_to_vertex_list"
        /\ args' = [polygon_objects_grid_coords |-> polys]
        /\ ret' = Return(polygon_list_to_vertex_list(polys))
        /\ UNCHANGED <<fs, written, open_datasets, run>>

\* The rows of one encoded list with the columns of another of the same
\* length: the encoding of a list when the two lists are the same, arrays
\* whose NaN's may disagree when they are not.
CallVertexListToPolygonList ==
    \E rowList \in GridPolygonLists, columnList \in GridPolygonLists :
        LET vertex_rows == polygon_list_to_vertex_list(rowList).vertex_rows
            vertex_columns ==
                polygon_list_to_vertex_list(columnList).vertex_columns
        IN  /\ op = "none"
            /\ Len(vertex_rows) = Len(vertex_columns)
            /\ op' = "vertex_list_to_polygon_list"
            /\ args' = [vertex_rows |-> vertex_rows,
                        vertex_columns |-> vertex_columns]
            /\ ret' = vertex_list_to_polygon_list(vertex_rows, vertex_columns)
            /\ UNCHANGED <<fs, written, open_datasets, run>>

\* The encoding of a list with one element of the rows or of the columns
\* edited: a NaN put in the place of a coordinate, or a coordinate in the
\* place of a separator.
CallVertexListToPolygonListEdited ==
    \E polys \in GridPolygonLists, inRows \in BOOLEAN :
        LET encoded == polygon_list_to_vertex_list(polys)
        IN  \E i \in 1..Len(encoded.vertex_rows) :
              LET edit(a) == [a EXCEPT ![i] = IF IsNaN(@) THEN RInt(0) ELSE NaN]
                  vertex_rows == IF inRows THEN edit(encoded.vertex_rows)
                                 ELSE encoded.vertex_rows
                  vertex_columns == IF inRows THEN encoded.vertex_columns
                                    ELSE edit(encoded.vertex_columns)
              IN  /\ op = "none"
                  /\ op' = "vertex_list_to_polygon_list"
                  /\ args' = [vertex_rows |-> vertex_rows,
                              vertex_columns |-> vertex_columns]
                  /\ ret' = vertex_list_to_polygon_list(vertex_rows, vertex_columns)
                  /\ UNCHANGED <<fs, written, open_datasets, run>>

NextCodec ==
    \/ CallPolygonListToVertexList
    \/ CallVertexListToPolygonList
    \/ CallVertexListToPolygonListEdited

SpecCodec == Init /\ [][NextCodec]_vars

\* C2: decoding the rows and columns that encode a non-empty polygon list
\* returns as many polygons, with the same rings, and for polygon i a
\* first-vertex index that is a position of the flat arrays tagged i by the
\* encoder (so never a separator).
C2_DecodeInvertsEncode ==
    op = "vertex_list_to_polygon_list" =>
        \A polys \in GridPolygonLists :
            LET encoded == polygon_list_to_vertex_list(polys)
            IN  (/\ polys # <<>>
                 /\ encoded.vertex_rows = args.vertex_rows
                 /\ encoded.vertex_columns = args.vertex_columns)
                => /\ IsOk(ret)
                   /\ Len(ret.value.polygon_objects_grid_coords) = Len(polys)
                   /\ ret.value.polygon_objects_grid_coords = polys
                   /\ Len(ret.value.polygon_to_first_vertex_indices) = Len(polys)
                   /\ \A i \in 1..Len(polys) :
                        LET first == ret.value.polygon_to_first_vertex_indices[i]
                        IN  /\ first \in 0..(Len(args.vertex_rows) - 1)
                            /\ encoded.vertex_to_polygon_indices[first + 1] = i - 1

\* The encoding of a triangle followed by a square has been decoded.
C2_Witness ==
    /\ op = "vertex_list_to_polygon_list"
    /\ args.vertex_rows =
           polygon_list_to_vertex_list(<<Triangle, UnitSquare>>).vertex_rows
    /\ args.vertex_columns =
           polygon_list_to_vertex_list(<<Triangle, UnitSquare>>).vertex_columns
    /\ IsOk(ret)
    /\ ret.value.polygon_to_first_vertex_indices = <<0, 5>>

----------------------------------------------------------------------------
(* Pixel-to-grid coordinate mapper *)

\* Mutant: num_grid_rows is not validated.
CheckMapperDims_skip_grid_rows(num_grid_rows, num_grid_columns, num_pixel_rows, num_pixel_columns, num_panel_rows, num_panel_columns) ==
    IF \/ ~(num_grid_columns > 0)
       \/ ~(num_pixel_rows > 0) \/ ~(num_pixel_columns > 0)
       \/ ~(num_panel_rows > 0) \/ ~(num_panel_columns > 0)
    THEN Raise("validation", "dimensions")
    ELSE Ok

\* error_checking.assert_is_greater(..., 0) on the six counts (lines 326-337)
CheckMapperDims(num_grid_rows, num_grid_columns, num_pixel_rows, num_pixel_columns, num_panel_rows, num_panel_columns) ==
    IF ~(num_grid_rows > 0) THEN Raise("validation", "num_grid_rows")
    ELSE IF ~(num_grid_columns > 0) THEN Raise("validation", "num_grid_columns")
    ELSE IF ~(num_pixel_rows > 0) THEN Raise("validation", "num_pixel_rows")
    ELSE IF ~(num_pixel_columns > 0)
    THEN Raise("validation", "num_pixel_columns")
    ELSE IF ~(num_panel_rows > 0) THEN Raise("validation", "num_panel_rows")
    ELSE IF ~(num_panel_columns > 0)
    THEN Raise("validation", "num_panel_columns")
    ELSE Ok

\* Mutant: integer division, i * num_pixels // num_panels.
panel_to_first_px_floor_division(i, num_pixels, num_panels) ==
    RInt((i * num_pixels) \div num_panels)

\* panel_column_to_first_px_column[i] = i * float(num_pixels) / num_panels
panel_to_first_px(i, num_pixels, num_panels) ==
    RDiv(RMul(RInt(i), RInt(num_pixels)), RInt(num_panels))

\* Mutant: the value num_panels is not replaced.
PanelIndices_no_clamp(these_pixels, num_panels, num_pixels) ==
    [i \in 1..Len(these_pixels) |->
        RFloor(RDiv(RMul(these_pixels[i], RInt(num_panels)), RInt(num_pixels)))]

\* floor(these_pixels * float(num_panels) / num_pixels), the value num_panels
\* replaced by num_panels - 1
PanelIndices(these_pixels, num_panels, num_pixels) ==
    [i \in 1..Len(these_pixels) |->
        LET raw == RFloor(RDiv(RMul(these_pixels[i], RInt(num_panels)),
                               RInt(num_pixels)))
        IN  IF raw = num_panels THEN num_panels - 1 ELSE raw]

\* One axis of one polygon (lines 368-401 for x, 403-436 for y): the shifted
\* pixel coordinates, their panel indices, and the grid coordinates before
\* any flip.
MapAxis(pixel_coords, num_grid, num_pixels, num_panels) ==
    LET these_pixels == [i \in 1..Len(pixel_coords) |->
                            RAdd(Half, pixel_coords[i])]
        these_panels == PanelIndices(these_pixels, num_panels, num_pixels)
        first_px == panel_to_first_px(these_panels[1], num_pixels, num_panels)
    IN  IF ~AllGeq(these_pixels, RInt(0)) \/ ~AllLeq(these_pixels, RInt(num_pixels))
        THEN [outcome |-> "outside"]
        ELSE IF Cardinality(Range(these_panels)) > 1
        THEN [outcome |-> "multiple", panels |-> these_panels]
        ELSE [outcome |-> "ok",
              panel |-> these_panels[1],
              grid |-> [i \in 1..Len(these_pixels) |->
                  RAdd(Rat(-1, 2),
                       RDiv(RMul(RSub(these_pixels[i], first_px),
                                 RInt(num_grid * num_panels)),
                            RInt(num_pixels)))]]

\* Mutant: the message gives the 0-based position of the polygon.
MultiplePanelsError_zero_based(k, axis, panels) ==
    Raise("ValueError", [polygon |-> k, axis |-> axis, panels |-> panels])

\* 'The {0:d}th polygon is in multiple panels.  Panel columns listed
\* below.\n{1:s}'.format(k + 1, str(these_panel_columns))
MultiplePanelsError(k, axis, panels) ==
    Raise("ValueError", [polygon |-> k + 1, axis |-> axis, panels |-> panels])

\* Mutant: the grid rows are not flipped.
MapOnePolygon_no_flip(polygon, k, num_grid_rows, num_grid_columns, num_pixel_rows, num_pixel_columns, num_panel_rows, num_panel_columns) ==
    LET columns == MapAxis(Xs(polygon), num_grid_columns, num_pixel_columns, num_panel_columns)
        rows == MapAxis(Ys(polygon), num_grid_rows, num_pixel_rows, num_panel_rows)
    IN  IF columns.outcome = "outside" THEN Raise("validation", "pixel column")
        ELSE IF columns.outcome = "multiple"
        THEN MultiplePanelsError(k, "columns", columns.panels)
        ELSE IF rows.outcome = "outside" THEN Raise("validation", "pixel row")
        ELSE IF rows.outcome = "multiple"
        THEN MultiplePanelsError(k, "rows", rows.panels)
        ELSE Return([polygon |-> vertex_arrays_to_polygon(columns.grid, rows.grid),
                     panel_row |-> rows.panel, panel_column |-> columns.panel])

\* The body of the loop over the polygons (lines 366-443) for polygon k,
\* counted from 0.
MapOnePolygon(polygon, k, num_grid_rows, num_grid_columns, num_pixel_rows, num_pixel_columns, num_panel_rows, num_panel_columns) ==
    LET columns == MapAxis(Xs(polygon), num_grid_columns, num_pixel_columns, num_panel_columns)
        rows == MapAxis(Ys(polygon), num_grid_rows, num_pixel_rows, num_panel_rows)
    IN  IF columns.outcome = "outside" THEN Raise("validation", "pixel column")
        ELSE IF columns.outcome = "multiple"
        THEN MultiplePanelsError(k, "columns", columns.panels)
        ELSE IF rows.outcome = "outside" THEN Raise("validation", "pixel row")
        ELSE IF rows.outcome = "multiple"
        THEN MultiplePanelsError(k, "rows", rows.panels)
        ELSE LET these_grid_rows ==
                     [i \in 1..Len(rows.grid) |->
                         RSub(RInt(num_grid_rows - 1), rows.grid[i])]
             IN  Return([polygon |-> vertex_arrays_to_polygon(columns.grid, these_grid_rows),
                         panel_row |-> rows.panel, panel_column |-> columns.panel])

\* The loop over the polygons, from polygon k (counted from 0) on; done holds
\* the results of the polygons before k.
RECURSIVE MapperLoop(_, _, _, _, _, _, _, _, _)
MapperLoop(polygon_objects_pixel_coords, k, done, num_grid_rows, num_grid_columns, num_pixel_rows, num_pixel_columns, num_panel_rows, num_panel_columns) ==
    IF k >= Len(polygon_objects_pixel_coords)
    THEN Return([polygon_objects_grid_coords |->
                     [i \in 1..Len(done) |-> done[i].polygon],
                 panel_row_by_polygon |->
                     [i \in 1..Len(done) |-> done[i].panel_row],
                 panel_column_by_polygon |->
                     [i \in 1..Len(done) |-> done[i].panel_column]])
    ELSE LET one == MapOnePolygon(polygon_objects_pixel_coords[k + 1], k,
                        num_grid_rows, num_grid_columns, num_pixel_rows,
                        num_pixel_columns, num_panel_rows, num_panel_columns)
         IN  IF ~IsOk(one) THEN one
             ELSE MapperLoop(polygon_objects_pixel_coords, k + 1,
                             Append(done, one.value), num_grid_rows,
                             num_grid_columns, num_pixel_rows, num_pixel_columns,
                             num_panel_rows, num_panel_columns)

EmptyMapperResult ==
    [polygon_objects_grid_coords |-> <<>>, panel_row_by_polygon |-> <<>>,
     panel_column_by_polygon |-> <<>>]

\* Mutant: the empty list returns before the dimensions are validated.
polygons_from_pixel_to_grid_coords_empty_first(polygon_objects_pixel_coords, num_grid_rows, num_grid_columns, num_pixel_rows, num_pixel_columns, num_panel_rows, num_panel_columns) ==
    LET checked == CheckMapperDims(num_grid_rows, num_grid_columns, num_pixel_rows, num_pixel_columns, num_panel_rows, num_panel_columns)
    IN  IF Len(polygon_objects_pixel_coords) = 0 THEN Return(EmptyMapperResult)
        ELSE IF ~IsOk(checked) THEN checked
        ELSE MapperLoop(polygon_objects_pixel_coords, 0, <<>>, num_grid_rows,
                        num_grid_columns, num_pixel_rows, num_pixel_columns,
                        num_panel_rows, num_panel_columns)

polygons_from_pixel_to_grid_coords(polygon_objects_pixel_coords, num_grid_rows, num_grid_columns, num_pixel_rows, num_pixel_columns, num_panel_rows, num_panel_columns) ==
    LET checked == CheckMapperDims(num_grid_rows, num_grid_columns, num_pixel_rows, num_pixel_columns, num_panel_rows, num_panel_columns)
    IN  IF ~IsOk(checked) THEN checked
        ELSE IF Len(polygon_objects_pixel_coords) = 0
        THEN Return(EmptyMapperResult)
        ELSE MapperLoop(polygon_objects_pixel_coords, 0, <<>>, num_grid_rows,
                        num_grid_columns, num_pixel_rows, num_pixel_columns,
                        num_panel_rows, num_panel_columns)

----------------------------------------------------------------------------
(* Inputs of the mapper.  A pixel polygon is given by its shifted           *)
(* coordinates u = x + 0.5, v = y + 0.5, which the image bounds by          *)
(* [0, num_pixel_columns] and [0, num_pixel_rows].                          *)

PixelRing(shifted) ==
    Ring([i \in 1..Len(shifted) |->
            <<RSub(shifted[i][1], Half), RSub(shifted[i][2], Half)>>])

PixelRect(u1, v1, u2, v2) ==
    PixelRing(<<<<u1, v1>>, <<u2, v1>>, <<u2, v2>>, <<u1, v2>>>>)

\* touches the top and the left edge of the image
TopLeft == PixelRect(RInt(0), RInt(0), RInt(1), RInt(1))
SmallTriangle ==
    PixelRing(<<<<RInt(1), RInt(1)>>, <<RInt(2), RInt(1)>>, <<RInt(1), Rat(3, 2)>>>>)
Fractional ==
    PixelRing(<<<<Rat(7, 10), Rat(1, 5)>>, <<Rat(9, 5), Rat(1, 5)>>,
                <<Rat(7, 10), Rat(13, 10)>>>>)
\* its right side is at u = 3
LeftOfThree == PixelRect(RInt(2), RInt(0), RInt(3), RInt(1))
\* touches the right and the bottom edge of a 6 x 4 image
BottomRight == PixelRect(RInt(5), RInt(3), RInt(6), RInt(4))
SpanColumns == PixelRect(RInt(1), RInt(1), RInt(4), Rat(3, 2))
SpanRows == PixelRect(RInt(0), RInt(1), RInt(1), RInt(3))
SpanBoth == PixelRect(RInt(1), RInt(1), RInt(4), RInt(3))
\* reaches u = -0.5, outside every image
OutsideLeft == PixelRect(Rat(-1, 2), RInt(0), RInt(1), RInt(1))

PixelPolygonChoices ==
    {TopLeft, SmallTriangle, Fractional, LeftOfThree, BottomRight,
     SpanColumns, SpanRows, SpanBoth, OutsideLeft}

PixelUnitRects ==
    {PixelRect(RInt(a), RInt(b), RInt(a + 1), RInt(b + 1)) :
        a \in 0..5, b \in 0..3}

PixelPolygonLists ==
    SeqsUpTo(PixelPolygonChoices, MaxPolygons)
    \cup {<<p>> : p \in PixelUnitRects}

MapperDims(gr, gc, xr, xc, pr, pc) ==
    [num_grid_rows |-> gr, num_grid_columns |-> gc,
     num_pixel_rows |-> xr, num_pixel_columns |-> xc,
     num_panel_rows |-> pr, num_panel_columns |-> pc]

\* panels 3 pixels wide; panels 2 x 2 pixels; panels 2.5 x 1.5 pixels
DimsA == MapperDims(2, 3, 4, 6, 1, 2)
DimsB == MapperDims(2, 2, 4, 6, 2, 3)
DimsC == MapperDims(3, 2, 3, 5, 2, 2)

MapperDimChoices ==
    {DimsA, DimsB, DimsC,
     MapperDims(0, 3, 4, 6, 1, 2), MapperDims(2, -1, 4, 6, 1, 2),
     MapperDims(2, 3, 0, 6, 1, 2), MapperDims(2, 3, 4, -1, 1, 2),
     MapperDims(2, 3, 4, 6, 0, 2), MapperDims(2, 3, 4, 6, 1, -1)}

Mapper(polys, d) ==
    polygons_from_pixel_to_grid_coords(
        polys, d.num_grid_rows, d.num_grid_columns, d.num_pixel_rows,
        d.num_pixel_columns, d.num_panel_rows, d.num_panel_columns)

CallPolygonsFromPixelToGridCoords ==
    \E d \in MapperDimChoices, polys \in PixelPolygonLists :
        /\ op = "none"
        /\ op' = "polygons_from_pixel_to_grid_coords"
        /\ args' = [polygon_objects_pixel_coords |-> polys, dims |-> d]
        /\ ret' = Mapper(polys, d)
        /\ UNCHANGED <<fs, written, open_datasets, run>>

NextMapper == CallPolygonsFromPixelToGridCoords

SpecMapper == Init /\ [][NextMapper]_vars

----------------------------------------------------------------------------
(* Claims about the mapper *)

PositiveMapperDims(d) ==
    /\ d.num_grid_rows > 0 /\ d.num_grid_columns > 0
    /\ d.num_pixel_rows > 0 /\ d.num_pixel_columns > 0
    /\ d.num_panel_rows > 0 /\ d.num_panel_columns > 0

\* the shifted coordinate u lies in panel c of num_panels panels that tile
\* num_pixels pixels: c * width <= u < (c + 1) * width, the far edge of the
\* image counting with the last panel
ResolvesTo(u, c, num_panels, num_pixels) ==
    \/ /\ RLeq(RInt(c * num_pixels), RMul(u, RInt(num_panels)))
       /\ RLt(RMul(u, RInt(num_panels)), RInt((c + 1) * num_pixels))
    \/ c = num_panels - 1 /\ u = RInt(num_pixels)

PanelsOf(pixel_coords, num_panels, num_pixels) ==
    {c \in 0..(num_panels - 1) :
        \E i \in 1..Len(pixel_coords) :
            ResolvesTo(RAdd(pixel_coords[i], Half), c, num_panels, num_pixels)}

ColumnsOf(polygon, d) ==
    PanelsOf(Xs(polygon), d.num_panel_columns, d.num_pixel_columns)
RowsOf(polygon, d) ==
    PanelsOf(Ys(polygon), d.num_panel_rows, d.num_pixel_rows)

InImage(polygon, d) ==
    /\ AllGeq(Xs(polygon), Rat(-1, 2))
    /\ AllLeq(Xs(polygon), Rat(2 * d.num_pixel_columns - 1, 2))
    /\ AllGeq(Ys(polygon), Rat(-1, 2))
    /\ AllLeq(Ys(polygon), Rat(2 * d.num_pixel_rows - 1, 2))

SpansPanels(polygon, d) ==
    Cardinality(ColumnsOf(polygon, d)) > 1 \/ Cardinality(RowsOf(polygon, d)) > 1

\* positive dimensions and every vertex inside the image
ValidMapperCall(a) ==
    /\ PositiveMapperDims(a.dims)
    /\ \A i \in 1..Len(a.polygon_objects_pixel_coords) :
           InImage(a.polygon_objects_pixel_coords[i], a.dims)

\* the error names polygon i (counted from 1) and the panels of its vertices:
\* the panel columns if they differ, else the panel rows
NamesPolygon(r, i, polygon, d) ==
    /\ Raised(r, "ValueError")
    /\ r.value.info.polygon = i
    /\ IF Cardinality(ColumnsOf(polygon, d)) > 1
       THEN /\ r.value.info.axis = "columns"
            /\ Range(r.value.info.panels) = ColumnsOf(polygon, d)
       ELSE /\ r.value.info.axis = "rows"
            /\ Range(r.value.info.panels) = RowsOf(polygon, d)

\* C4 as stated: if the vertices of any polygon resolve to more than one panel
\* column (or row), the call raises an error that names that polygon by its
\* 1-based position and the panel indices found, and returns nothing.
C4_ErrorNamesEverySpanningPolygon ==
    (op = "polygons_from_pixel_to_grid_coords" /\ ValidMapperCall(args)) =>
        \A i \in 1..Len(args.polygon_objects_pixel_coords) :
            SpansPanels(args.polygon_objects_pixel_coords[i], args.dims)
                => NamesPolygon(ret, i, args.polygon_objects_pixel_coords[i],
                                args.dims)

\* C4 amended: the call raises for the first polygon of the list, in list
\* order, whose vertices resolve to more than one panel; the error names
\* that polygon, and the panel columns before the panel rows.
C4_ErrorNamesFirstSpanningPolygon ==
    (op = "polygons_from_pixel_to_grid_coords" /\ ValidMapperCall(args)) =>
        \A i \in 1..Len(args.polygon_objects_pixel_coords) :
            (/\ SpansPanels(args.polygon_objects_pixel_coords[i], args.dims)
             /\ \A h \in 1..(i - 1) :
                  ~SpansPanels(args.polygon_objects_pixel_coords[h], args.dims))
                => NamesPolygon(ret, i, args.polygon_objects_pixel_coords[i],
                                args.dims)

\* The second polygon of the list is in panel columns 0 and 1 of two.
C4_Witness ==
    /\ op = "polygons_from_pixel_to_grid_coords"
    /\ args.dims = DimsA
    /\ args.polygon_objects_pixel_coords = <<TopLeft, SpanColumns>>
    /\ Raised(ret, "ValueError")
    /\ ret.value.info.polygon = 2
    /\ Range(ret.value.info.panels) = {0, 1}

\* C5: for every accepted polygon the panel column is the panel its shifted
\* x coordinates lie in, grid_x = -0.5 + (x + 0.5 - column * num_pixel_columns
\* / num_panel_columns) * num_grid_columns * num_panel_columns /
\* num_pixel_columns (here multiplied out by 2 * num_pixel_columns), and the
\* same for y followed by the flip num_grid_rows - 1 - grid_y; a vertex on the
\* top edge of the image gets grid_y = num_grid_rows - 0.5, one on the bottom
\* edge grid_y = -0.5.
C5_MapperFormula ==
    (op = "polygons_from_pixel_to_grid_coords" /\ IsOk(ret)) =>
        /\ Len(ret.value.polygon_objects_grid_coords)
               = Len(args.polygon_objects_pixel_coords)
        /\ \A i \in 1..Len(args.polygon_objects_pixel_coords) :
            LET d == args.dims
                pixel == args.polygon_objects_pixel_coords[i]
                grid == ret.value.polygon_objects_grid_coords[i]
                c == ret.value.panel_column_by_polygon[i]
                r == ret.value.panel_row_by_polygon[i]
                two == RInt(2)
            IN  /\ Len(grid) = Len(pixel)
                /\ ColumnsOf(pixel, d) = {c}
                /\ RowsOf(pixel, d) = {r}
                /\ \A j \in 1..Len(pixel) :
                    LET x == pixel[j][1]
                        y == pixel[j][2]
                    IN  /\ RMul(RInt(2 * d.num_pixel_columns), grid[j][1])
                           = RSub(RMul(RAdd(RMul(two, x), RInt(1)),
                                       RInt(d.num_grid_columns * d.num_panel_columns)),
                                  RInt(d.num_pixel_columns
                                       + 2 * c * d.num_grid_columns * d.num_pixel_columns))
                        /\ RMul(RInt(2 * d.num_pixel_rows), grid[j][2])
                           = RSub(RInt(2 * d.num_pixel_rows * (d.num_grid_rows - 1)
                                       + d.num_pixel_rows
                                       + 2 * r * d.num_grid_rows * d.num_pixel_rows),
                                  RMul(RAdd(RMul(two, y), RInt(1)),
                                       RInt(d.num_grid_rows * d.num_panel_rows)))
                        /\ y = Rat(-1, 2)
                             => grid[j][2] = Rat(2 * d.num_grid_rows - 1, 2)
                        /\ y = Rat(2 * d.num_pixel_rows - 1, 2)
                             => grid[j][2] = Rat(-1, 2)

\* One polygon on the top edge and one on the bottom edge of the image, in
\* different panel rows, are mapped.
C5_Witness ==
    /\ op = "polygons_from_pixel_to_grid_coords"
    /\ args.dims = DimsB
    /\ args.polygon_objects_pixel_coords = <<TopLeft, BottomRight>>
    /\ IsOk(ret)
    /\ ret.value.panel_row_by_polygon = <<0, 1>>
    /\ ret.value.panel_column_by_polygon = <<0, 2>>
    /\ ret.value.polygon_objects_grid_coords[1][1] = <<Rat(-1, 2), Rat(3, 2)>>
    /\ ret.value.polygon_objects_grid_coords[2][3] = <<Rat(3, 2), Rat(-1, 2)>>

PanelWidth(d) == Rat(d.num_pixel_columns, d.num_panel_columns)

Translated(polygon, dx) ==
    [i \in 1..Len(polygon) |-> <<RAdd(polygon[i][1], dx), polygon[i][2]>>]

C7_EmptyListNeverFails ==
    (/\ op = "polygons_from_pixel_to_grid_coords"
     /\ args.polygon_objects_pixel_coords = <<>>)
        => IsOk(ret) /\ ret.value = EmptyMapperResult

\* C7 amended: an empty polygon list returns empty outputs exactly when the
\* six dimension arguments are positive; otherwise the call raises a
\* validation error, as for any other list.
C7_EmptyListReturnsEmptyIfDimsPositive ==
    (/\ op = "polygons_from_pixel_to_grid_coords"
     /\ args.polygon_objects_pixel_coords = <<>>)
        => IF PositiveMapperDims(args.dims)
           THEN IsOk(ret) /\ ret.value = EmptyMapperResult
           ELSE Raised(ret, "validation")

\* An empty list with positive dimensions.
C7_Witness ==
    /\ op = "polygons_from_pixel_to_grid_coords"
    /\ args.polygon_objects_pixel_coords = <<>>
    /\ PositiveMapperDims(args.dims)
    /\ IsOk(ret)
    /\ ret.value.panel_row_by_polygon = <<>>

\* C8: the call raises a validation error whenever one of the six dimension
\* arguments is zero or negative, whatever the polygon list is.
C8_NonPositiveDimensionFails ==
    (/\ op = "polygons_from_pixel_to_grid_coords"
     /\ ~PositiveMapperDims(args.dims))
        => Raised(ret, "validation")

\* num_grid_rows = 0 with a polygon list that is otherwise accepted.
C8_Witness ==
    /\ op = "polygons_from_pixel_to_grid_coords"
    /\ args.dims.num_grid_rows = 0
    /\ args.polygon_objects_pixel_coords = <<TopLeft, BottomRight>>
    /\ Raised(ret, "validation")

----------------------------------------------------------------------------
(* Persistence codec *)

\* None, as a value that no polygon list equals
None == <<<<>>>>

\* mask_matrix.shape of a 4-D matrix
Shape(mask_matrix) ==
    <<Cardinality(DOMAIN mask_matrix),
      Cardinality(DOMAIN mask_matrix[0]),
      Cardinality(DOMAIN mask_matrix[0][0]),
      Cardinality(DOMAIN mask_matrix[0][0][0])>>

FalseMask(shape) ==
    [j \in 0..(shape[1] - 1) |-> [k \in 0..(shape[2] - 1) |->
        FalseMatrix(shape[3], shape[4])]]

\* mask_matrix.astype(int), and numpy.array(..., dtype=bool) of the result
MaskToInt(mask_matrix) ==
    [j \in DOMAIN mask_matrix |-> [k \in DOMAIN mask_matrix[j] |->
        [m \in DOMAIN mask_matrix[j][k] |-> [n \in DOMAIN mask_matrix[j][k][m] |->
            IF mask_matrix[j][k][m][n] THEN 1 ELSE 0]]]]

MaskToBool(int_matrix) ==
    [j \in DOMAIN int_matrix |-> [k \in DOMAIN int_matrix[j] |->
        [m \in DOMAIN int_matrix[j][k] |-> [n \in DOMAIN int_matrix[j][k][m] |->
            int_matrix[j][k][m][n] # 0]]]]

\* Mutant: every vertex gets the panel of the first polygon.
PanelByVertex_first_polygon(panel_by_polygon, vertex_to_poly_indices) ==
    [v \in 1..Len(vertex_to_poly_indices) |->
        IF vertex_to_poly_indices[v] >= 0
        THEN RInt(panel_by_polygon[1]) ELSE NaN]

\* numpy.array([panel_by_polygon[k] if k >= 0 else numpy.nan
\*              for k in these_vertex_to_poly_indices])   (lines 593-614)
PanelByVertex(panel_by_polygon, vertex_to_poly_indices) ==
    [v \in 1..Len(vertex_to_poly_indices) |->
        IF vertex_to_poly_indices[v] >= 0
        THEN RInt(panel_by_polygon[vertex_to_poly_indices[v] + 1]) ELSE NaN]

\* What a NaN becomes in an int32 variable is not defined by the code: the
\* smallest int32 on the usual builds, here any of these.
Int32Min == -2147483647 - 1
NanAsInt32Choices == {Int32Min, 0}

\* the values of a float array stored in a variable of datatype numpy.int32
StoreInt32(values, nan_as_int) ==
    [i \in 1..Len(values) |->
        IF IsNaN(values[i]) THEN nan_as_int ELSE RFloor(values[i])]

\* the values of a float array stored in a variable of datatype numpy.float32
StoreFloat32(values) == [i \in 1..Len(values) |-> ToFloat32(values[i])]

\* The arrays of one bundle as lines 590-614 build them and lines 641-697
\* store them.
EncodeBundle(objects_grid_coords, panel_row_by_polygon, panel_column_by_polygon, nan_as_int) ==
    LET encoded == polygon_list_to_vertex_list(objects_grid_coords)
    IN  [vertex_rows |-> StoreFloat32(encoded.vertex_rows),
         vertex_columns |-> StoreFloat32(encoded.vertex_columns),
         panel_row_by_vertex |->
             StoreInt32(PanelByVertex(panel_row_by_polygon,
                                      encoded.vertex_to_polygon_indices),
                        nan_as_int),
         panel_column_by_vertex |->
             StoreInt32(PanelByVertex(panel_column_by_polygon,
                                      encoded.vertex_to_polygon_indices),
                        nan_as_int)]

\* Mutant: the default negative mask is filled with True.
NegativeOrDefault_true_mask(a) ==
    IF a.negative_objects_grid_coords = None
    THEN [objects_grid_coords |-> <<>>,
          panel_row_by_polygon |-> <<>>,
          panel_column_by_polygon |-> <<>>,
          mask_matrix |->
              [j \in DOMAIN a.positive_mask_matrix |->
                [k \in DOMAIN a.positive_mask_matrix[j] |->
                  [m \in DOMAIN a.positive_mask_matrix[j][k] |->
                    [n \in DOMAIN a.positive_mask_matrix[j][k][m] |-> TRUE]]]]]
    ELSE [objects_grid_coords |-> a.negative_objects_grid_coords,
          panel_row_by_polygon |-> a.negative_panel_row_by_polygon,
          panel_column_by_polygon |-> a.negative_panel_column_by_polygon,
          mask_matrix |-> a.negative_mask_matrix]

\* The negative bundle of a call, the defaults of lines 570-575 when it is
\* omitted.
NegativeOrDefault(a) ==
    IF a.negative_objects_grid_coords = None
    THEN [objects_grid_coords |-> <<>>,
          panel_row_by_polygon |-> <<>>,
          panel_column_by_polygon |-> <<>>,
          mask_matrix |-> FalseMask(Shape(a.positive_mask_matrix))]
    ELSE [objects_grid_coords |-> a.negative_objects_grid_coords,
          panel_row_by_polygon |-> a.negative_panel_row_by_polygon,
          panel_column_by_polygon |-> a.negative_panel_column_by_polygon,
          mask_matrix |-> a.negative_mask_matrix]

\* write_polygons: the outcome of the call and, when it returns, the file it
\* wrote; a holds the arguments by name, and in a.types what the values of
\* the model do not show of their Python types.  createDimension with size 0 makes
\* an unlimited dimension and the NETCDF3_64BIT_OFFSET format has room for
\* one: with both vertex dimensions of size 0 the second createDimension
\* (lines 637-639) raises, after the file was created at line 617.
write_polygons(a, nan_as_int) ==
    LET shape == Shape(a.positive_mask_matrix)
        positive_checked ==
            check_polygons(a.positive_objects_grid_coords, shape[1], shape[2],
                           a.positive_panel_row_by_polygon,
                           a.positive_panel_column_by_polygon)
        negative == NegativeOrDefault(a)
        negative_checked ==
            check_polygons(negative.objects_grid_coords,
                           Shape(negative.mask_matrix)[1],
                           Shape(negative.mask_matrix)[2],
                           negative.panel_row_by_polygon,
                           negative.panel_column_by_polygon)
    IN  IF a.types.orig_image_file_name # "str"
        THEN [outcome |-> Raise("validation", "orig_image_file_name")]
        ELSE IF a.types.positive_mask_dtype # "bool"
        THEN [outcome |-> Raise("validation", "positive_mask_matrix type")]
        ELSE IF a.types.positive_mask_ndim # 4
        THEN [outcome |-> Raise("validation", "positive_mask_matrix dimensions")]
        ELSE IF ~IsOk(positive_checked)
        THEN [outcome |-> positive_checked]
        ELSE IF Shape(negative.mask_matrix) # shape
        THEN [outcome |-> Raise("validation", "negative_mask_matrix dimensions")]
        ELSE IF ~IsOk(negative_checked)
        THEN [outcome |-> negative_checked]
        ELSE IF /\ Len(polygon_list_to_vertex_list(a.positive_objects_grid_coords).vertex_rows) = 0
                /\ Len(polygon_list_to_vertex_list(negative.objects_grid_coords).vertex_rows) = 0
        THEN [outcome |-> Raise("RuntimeError", "NC_UNLIMITED size already in use")]
        ELSE [outcome |-> Return(None),
              file |->
                [orig_image_file_name |-> a.orig_image_file_name,
                 dimensions |->
                    [panel_row |-> shape[1], panel_column |-> shape[2],
                     grid_row |-> shape[3], grid_column |-> shape[4]],
                 positive |->
                    EncodeBundle(a.positive_objects_grid_coords,
                                 a.positive_panel_row_by_polygon,
                                 a.positive_panel_column_by_polygon, nan_as_int),
                 negative |->
                    EncodeBundle(negative.objects_grid_coords,
                                 negative.panel_row_by_polygon,
                                 negative.panel_column_by_polygon, nan_as_int),
                 positive_mask_matrix |-> MaskToInt(a.positive_mask_matrix),
                 negative_mask_matrix |-> MaskToInt(negative.mask_matrix)]]

\* Mutant: the parent directory is made before the arguments are checked.
FileSystemAfterWrite_mkdir_first(f, done) ==
    IF Raised(done.outcome, "validation")
    THEN [f EXCEPT !.directory = TRUE]
    ELSE IF IsOk(done.outcome)
    THEN [directory |-> TRUE, exists |-> TRUE, complete |-> TRUE,
          content |-> done.file]
    ELSE [directory |-> TRUE, exists |-> TRUE, complete |-> FALSE]

\* The file system after a write_polygons call on the file system f.  Every
\* check of lines 559-588 comes before mkdir_recursive_if_necessary (line
\* 616) and netCDF4.Dataset(..., 'w') (line 617); an error of netCDF4 after
\* line 617 leaves a file that was not completed.
FileSystemAfterWrite(f, done) ==
    IF Raised(done.outcome, "validation")
    THEN f
    ELSE IF IsOk(done.outcome)
    THEN [directory |-> TRUE, exists |-> TRUE, complete |-> TRUE,
          content |-> done.file]
    ELSE [directory |-> TRUE, exists |-> TRUE, complete |-> FALSE]

\* The dataset of write_polygons is opened at line 617 and closed at line
\* 717, with no handler in between: a call that raises after line 617 leaves
\* it open, a call that raises before has opened none.
DatasetsLeftOpenByWrite(outcome) ==
    IF Raised(outcome, "RuntimeError") THEN 1 ELSE 0

\* The dataset of read_polygons is opened at line 737 and closed at line 810:
\* a decoder error leaves it open.  A file that write_polygons left
\* incomplete either fails to open or opens and lacks a variable.
DatasetsLeftOpenByRead(outcome) ==
    IF Raised(outcome, "ValueError") THEN {1}
    ELSE IF Raised(outcome, "unreadable") THEN {0, 1}
    ELSE {0}

\* panel_by_vertex[these_poly_to_first_vertex_indices]
TakeAt(panel_by_vertex, first_vertex_indices) ==
    [i \in 1..Len(first_vertex_indices) |->
        panel_by_vertex[first_vertex_indices[i] + 1]]

\* read_polygons on the file system f
read_polygons(f) ==
    IF ~f.exists
    THEN Raise("not found", "netcdf_file_name")
    ELSE IF ~f.complete
    THEN Raise("unreadable", "netcdf_file_name")
    ELSE LET file == f.content
             positive == vertex_list_to_polygon_list(
                             file.positive.vertex_rows,
                             file.positive.vertex_columns)
             negative == vertex_list_to_polygon_list(
                             file.negative.vertex_rows,
                             file.negative.vertex_columns)
         IN  IF ~IsOk(positive) THEN positive
             ELSE IF ~IsOk(negative) THEN negative
             ELSE Return(
                [orig_image_file_name |-> file.orig_image_file_name,
                 positive_mask_matrix |-> MaskToBool(file.positive_mask_matrix),
                 negative_mask_matrix |-> MaskToBool(file.negative_mask_matrix),
                 positive_panel_row_by_polygon |->
                    TakeAt(file.positive.panel_row_by_vertex,
                           positive.value.polygon_to_first_vertex_indices),
                 positive_panel_column_by_polygon |->
                    TakeAt(file.positive.panel_column_by_vertex,
                           positive.value.polygon_to_first_vertex_indices),
                 negative_panel_row_by_polygon |->
                    TakeAt(file.negative.panel_row_by_vertex,
                           negative.value.polygon_to_first_vertex_indices),
                 negative_panel_column_by_polygon |->
                    TakeAt(file.negative.panel_column_by_vertex,
                           negative.value.polygon_to_first_vertex_indices),
                 positive_objects_grid_coords |->
                    positive.value.polygon_objects_grid_coords,
                 negative_objects_grid_coords |->
                    negative.value.polygon_objects_grid_coords])

----------------------------------------------------------------------------
(* Inputs and calls of the persistence codec *)

\* masks of shape (1, 2, 1, 2), and one of shape (2, 1, 1, 1)
Mask1212(a, b, c, d) ==
    [j \in {0} |-> [k \in {0, 1} |-> [m \in {0} |-> [n \in {0, 1} |->
        IF k = 0 THEN (IF n = 0 THEN a ELSE b) ELSE (IF n = 0 THEN c ELSE d)]]]]

MaskA == Mask1212(TRUE, FALSE, FALSE, TRUE)
MaskB == Mask1212(FALSE, TRUE, TRUE, TRUE)
MaskTall == FalseMask(<<2, 1, 1, 1>>)

FilePolygonChoices == {UnitSquare, Triangle, Sliver}

\* the panel arrays that go with n polygons in one panel row and two panel
\* columns, and arrays of the wrong length
FilePanelArrayChoices(n) ==
    ({Zeros(n)} \X GoodPanelArrays(n))
    \cup {<<Zeros(n + 1), Zeros(n)>>, <<Zeros(n), Zeros(n + 1)>>}

Bundle(polys, rows, columns) ==
    [objects_grid_coords |-> polys, panel_row_by_polygon |-> rows,
     panel_column_by_polygon |-> columns]

FilePositiveBundles ==
    UNION {{Bundle(polys, pa[1], pa[2]) : pa \in FilePanelArrayChoices(Len(polys))} :
              polys \in SeqsUpTo(FilePolygonChoices, MaxPolygons)}

\* omitted; empty; one polygon; two polygons; a panel column out of range
FileNegativeBundles ==
    <<Bundle(None, None, None),
      Bundle(<<>>, <<>>, <<>>),
      Bundle(<<Sliver>>, <<0>>, <<1>>),
      Bundle(<<UnitSquare, Triangle>>, <<0, 0>>, <<1, 0>>),
      Bundle(<<Triangle>>, <<0>>, <<2>>)>>

FileMaskChoices ==
    {<<MaskA, MaskB>>, <<MaskB, MaskA>>, <<MaskA, MaskTall>>,
     <<MaskTall, MaskTall>>}

\* the Python types of the arguments: as documented; an image path that is
\* no string; a positive mask that is not boolean; one that is not 4-D
ValidTypes ==
    [orig_image_file_name |-> "str", positive_mask_dtype |-> "bool",
     positive_mask_ndim |-> 4]

ArgumentTypeChoices ==
    {ValidTypes,
     [ValidTypes EXCEPT !.orig_image_file_name = "int"],
     [ValidTypes EXCEPT !.positive_mask_dtype = "int"],
     [ValidTypes EXCEPT !.positive_mask_ndim = 3]}

\* Arguments of a wrong type come with the second and the third negative
\* bundle only.
CallWritePolygons ==
    \E p \in FilePositiveBundles, i \in DOMAIN FileNegativeBundles,
       masks \in FileMaskChoices, nan_as_int \in NanAsInt32Choices,
       types \in ArgumentTypeChoices :
        LET n == FileNegativeBundles[i]
            a == [output_file_name |-> "polygons.nc",
                  types |-> types,
                  orig_image_file_name |->
                      IF types.orig_image_file_name = "str" THEN "image.png"
                      ELSE 7,
                  positive_objects_grid_coords |-> p.objects_grid_coords,
                  positive_panel_row_by_polygon |-> p.panel_row_by_polygon,
                  positive_panel_column_by_polygon |-> p.panel_column_by_polygon,
                  positive_mask_matrix |->
                      IF types.positive_mask_dtype # "bool" THEN MaskToInt(masks[1])
                      ELSE IF types.positive_mask_ndim = 3 THEN masks[1][0]
                      ELSE masks[1],
                  negative_objects_grid_coords |-> n.objects_grid_coords,
                  negative_panel_row_by_polygon |-> n.panel_row_by_polygon,
                  negative_panel_column_by_polygon |-> n.panel_column_by_polygon,
                  negative_mask_matrix |->
                      IF n.objects_grid_coords = None THEN None ELSE masks[2]]
            done == write_polygons(a, nan_as_int)
        IN  /\ op = "none"
            /\ types = ValidTypes \/ (i \in {2, 3} /\ nan_as_int = 0)
            /\ op' = "write_polygons"
            /\ args' = a
            /\ ret' = done.outcome
            /\ fs' = FileSystemAfterWrite(fs, done)
            /\ written' = IF IsOk(done.outcome) THEN a ELSE written
            /\ open_datasets' = open_datasets + DatasetsLeftOpenByWrite(done.outcome)
            /\ UNCHANGED run

\* read_polygons on the output file of the write, or on no file
CallReadPolygons ==
    /\ op \in {"none", "write_polygons"}
    /\ op' = "read_polygons"
    /\ args' = [netcdf_file_name |-> "polygons.nc"]
    /\ ret' = read_polygons(fs)
    /\ \E left_open \in DatasetsLeftOpenByRead(read_polygons(fs)) :
          open_datasets' = open_datasets + left_open
    /\ UNCHANGED <<fs, written, run>>

NextFile == CallWritePolygons \/ CallReadPolygons

SpecFile == Init /\ [][NextFile]_vars

\* The written file is edited by hand: a NaN is put in the place of the first
\* row coordinate of the positive or of the negative vertices.
EditFile ==
    \E sign \in {"positive", "negative"} :
        /\ op = "write_polygons"
        /\ fs.exists /\ fs.complete
        /\ Len(fs.content[sign].vertex_rows) > 0
        /\ ~IsNaN(fs.content[sign].vertex_rows[1])
        /\ fs' = [fs EXCEPT !.content[sign].vertex_rows[1] = NaN]
        /\ UNCHANGED <<op, args, ret, written, open_datasets, run>>

NextFileEdited == CallWritePolygons \/ EditFile \/ CallReadPolygons

SpecFileEdited == Init /\ [][NextFileEdited]_vars

----------------------------------------------------------------------------
(* Claims about the persistence codec *)

\* the file of a write_polygons call that returned
FileWritten == fs.exists /\ fs.complete

Float32Polygon(polygon) ==
    [i \in 1..Len(polygon) |->
        <<ToFloat32(polygon[i][1]), ToFloat32(polygon[i][2])>>]

Float32Polygons(polys) == [i \in 1..Len(polys) |-> Float32Polygon(polys[i])]

PerPolygon(panel_by_polygon, polys) ==
    IF Len(polys) = 0 THEN <<>> ELSE panel_by_polygon

----------------------------------------------------------------------------
(* Claims about the omitted negative bundle *)

\* the call with the negative bundle written out: an empty list, empty panel
\* arrays and an all-false mask of the shape of the positive mask
WithEmptyNegative(a) ==
    [a EXCEPT !.negative_objects_grid_coords = <<>>,
              !.negative_panel_row_by_polygon = <<>>,
              !.negative_panel_column_by_polygon = <<>>,
              !.negative_mask_matrix = FalseMask(Shape(a.positive_mask_matrix))]

AllZero(int_matrix) ==
    \A j \in DOMAIN int_matrix : \A k \in DOMAIN int_matrix[j] :
        \A m \in DOMAIN int_matrix[j][k] : \A n \in DOMAIN int_matrix[j][k][m] :
            int_matrix[j][k][m][n] = 0

\* C11: a write_polygons call without the negative bundle has the outcome of
\* the call with an empty negative list, empty negative panel arrays and an
\* all-false negative mask of the shape of the positive mask, and writes the
\* same file: negative vertex arrays of length zero and a negative mask of
\* that shape that is 0 everywhere.
C11_OmittedNegativeIsEmptyNegative ==
    (op = "write_polygons" /\ args.negative_objects_grid_coords = None) =>
        /\ \A nan_as_int \in NanAsInt32Choices :
              ret = write_polygons(WithEmptyNegative(args), nan_as_int).outcome
        /\ IsOk(ret) =>
              /\ \E nan_as_int \in NanAsInt32Choices :
                    fs.content = write_polygons(WithEmptyNegative(args), nan_as_int).file
              /\ Len(fs.content.negative.vertex_rows) = 0
              /\ Len(fs.content.negative.vertex_columns) = 0
              /\ Len(fs.content.negative.panel_row_by_vertex) = 0
              /\ Len(fs.content.negative.panel_column_by_vertex) = 0
              /\ Shape(fs.content.negative_mask_matrix)
                    = Shape(fs.content.positive_mask_matrix)
              /\ AllZero(fs.content.negative_mask_matrix)

\* Two positive polygons have been written without a negative bundle.
C11_Witness ==
    /\ op = "write_polygons"
    /\ args.negative_objects_grid_coords = None
    /\ args.positive_objects_grid_coords = <<Sliver, UnitSquare>>
    /\ IsOk(ret)
    /\ FileWritten
    /\ Len(fs.content.negative.vertex_rows) = 0
    /\ AllZero(fs.content.negative_mask_matrix)

----------------------------------------------------------------------------
(* Claims about the consistency check of the decoder *)

\* a NaN in one of two arrays of the same length where the other has none
NanPositionsDiffer(vertex_rows, vertex_columns) ==
    \E i \in 1..Len(vertex_rows) : IsNaN(vertex_rows[i]) # IsNaN(vertex_columns[i])

----------------------------------------------------------------------------
(* Claims about the dataset handle *)

\* C13: after write_polygons or read_polygons has returned or raised, for
\* whatever reason, no dataset that the call opened is left open.
C13_DatasetClosedOnEveryExit ==
    op \in {"write_polygons", "read_polygons"} => open_datasets = 0

----------------------------------------------------------------------------
(* Claims about failing writes *)

\* C14: when write_polygons raises because of its arguments (an image path
\* that is no string, a positive mask that is not boolean or not 4-D, a
\* negative mask of another shape, a bundle that fails the check of the panel
\* assignments), the call has created neither the output file nor its
\* parent directory.
C14_FailedValidationWritesNothing ==
    (op = "write_polygons" /\ Raised(ret, "validation"))
        => ~fs.exists /\ ~fs.directory

\* A call with a negative mask of another shape than the positive mask.
C14_Witness ==
    /\ op = "write_polygons"
    /\ args.types = ValidTypes
    /\ args.negative_objects_grid_coords = <<Sliver>>
    /\ args.positive_mask_matrix = MaskA
    /\ args.negative_mask_matrix = MaskTall
    /\ Raised(ret, "validation")
    /\ ~fs.exists

----------------------------------------------------------------------------
(* The script capture_human_polygons.py: one run of _run.  run.pc is the   *)
(* call that comes next, run.sign the regions it is for; run.log lists the *)
(* calls made so far and run.raised those that raised (both history).      *)

\* values that the locals of _run have before they are assigned
Unbound == <<>>

\* capture_polygons: assert_file_exists (line 250), then what the user draws
\* on the image, whose size gives the pixel counts
capture_polygons(image_exists, drawn, d) ==
    IF ~image_exists
    THEN Raise("not found", "image_file_name")
    ELSE Return([polygon_objects_pixel_coords |-> drawn,
                 num_pixel_rows |-> d.num_pixel_rows,
                 num_pixel_columns |-> d.num_pixel_columns])

\* Mutant: the negative regions are processed whatever the flag says.
StageAfterMask_always_negative(sign, positive_and_negative) ==
    IF sign = "positive"
    THEN [pc |-> "capture", sign |-> "negative"]
    ELSE [pc |-> "write", sign |-> "all"]

\* What follows polygons_to_mask in _run: `if positive_and_negative` (line
\* 111) after the positive mask, write_polygons (line 140) otherwise.
StageAfterMask(sign, positive_and_negative) ==
    IF sign = "positive" /\ positive_and_negative
    THEN [pc |-> "capture", sign |-> "negative"]
    ELSE [pc |-> "write", sign |-> "all"]

\* Mutant: an exception of a call is swallowed and the run goes on.
RunAfter_swallow(r, stage, outcome, next) ==
    [r EXCEPT !.pc = next.pc, !.sign = next.sign,
              !.log = Append(@, stage),
              !.raised = IF IsOk(outcome) THEN @ ELSE Append(@, stage)]

\* The run after the call named by stage has had this outcome: _run has no
\* handler, so an exception ends the run; otherwise it goes on with next.
RunAfter(r, stage, outcome, next) ==
    IF IsOk(outcome)
    THEN [r EXCEPT !.pc = next.pc, !.sign = next.sign, !.log = Append(@, stage)]
    ELSE [r EXCEPT !.pc = "failed", !.log = Append(@, stage),
                   !.raised = Append(@, stage)]

\* the arguments of the script: grid and panel counts (the pixel counts of d
\* are those of the image), the flag, and whether the image file exists
RunDimChoices == {DimsA, DimsB, MapperDims(0, 3, 4, 6, 1, 2)}

RunPolygonLists == SeqsUpTo({TopLeft, SmallTriangle, SpanColumns}, MaxPolygons)

RunStart ==
    \E d \in RunDimChoices, positive_and_negative \in BOOLEAN,
       image_exists \in BOOLEAN :
        /\ op = "none"
        /\ run.pc = "not started"
        /\ run' = [pc |-> "capture", sign |-> "positive",
                   dims |-> d,
                   positive_and_negative |-> positive_and_negative,
                   image_exists |-> image_exists,
                   log |-> <<>>, raised |-> <<>>,
                   pixel |-> [positive |-> Unbound, negative |-> Unbound],
                   grid |-> [positive |-> Unbound, negative |-> Unbound],
                   mask |-> [positive |-> Unbound, negative |-> Unbound]]
        /\ UNCHANGED <<op, args, ret, fs, written, open_datasets>>

\* lines 90-94 and 112-116
RunCapture ==
    \E drawn \in RunPolygonLists :
        LET captured == capture_polygons(run.image_exists, drawn, run.dims)
            after == RunAfter(run, <<"capture_polygons", run.sign>>, captured,
                              [pc |-> "mapper", sign |-> run.sign])
        IN  /\ run.pc = "capture"
            /\ run' = IF IsOk(captured)
                      THEN [after EXCEPT !.pixel[run.sign] =
                                captured.value.polygon_objects_pixel_coords]
                      ELSE after
            /\ UNCHANGED <<op, args, ret, fs, written, open_datasets>>

\* lines 96-102 and 118-124
RunMapper ==
    LET mapped == Mapper(run.pixel[run.sign], run.dims)
        after == RunAfter(run, <<"polygons_from_pixel_to_grid_coords", run.sign>>,
                          mapped, [pc |-> "mask", sign |-> run.sign])
    IN  /\ run.pc = "mapper"
        /\ run' = IF IsOk(mapped)
                  THEN [after EXCEPT !.grid[run.sign] = mapped.value]
                  ELSE after
        /\ UNCHANGED <<op, args, ret, fs, written, open_datasets>>

\* lines 104-109 and 126-131
RunMask ==
    LET g == run.grid[run.sign]
        d == run.dims
        masked == polygons_to_mask(
                      g.polygon_objects_grid_coords, d.num_grid_rows,
                      d.num_grid_columns, d.num_panel_rows, d.num_panel_columns,
                      g.panel_row_by_polygon, g.panel_column_by_polygon)
        after == RunAfter(run, <<"polygons_to_mask", run.sign>>, masked,
                          StageAfterMask(run.sign, run.positive_and_negative))
    IN  /\ run.pc = "mask"
        /\ run' = IF IsOk(masked)
                  THEN [after EXCEPT !.mask[run.sign] = masked.value]
                  ELSE after
        /\ UNCHANGED <<op, args, ret, fs, written, open_datasets>>

\* the arguments of write_polygons at lines 140-150; the negative ones are
\* None (lines 133-136) when no negative regions were captured
RunWriteArguments(r) ==
    LET negatives == r.positive_and_negative
    IN  [output_file_name |-> "polygons.nc",
         types |-> ValidTypes,
         orig_image_file_name |-> "image.png",
         positive_objects_grid_coords |-> r.grid.positive.polygon_objects_grid_coords,
         positive_panel_row_by_polygon |-> r.grid.positive.panel_row_by_polygon,
         positive_panel_column_by_polygon |-> r.grid.positive.panel_column_by_polygon,
         positive_mask_matrix |-> r.mask.positive,
         negative_objects_grid_coords |->
             IF negatives THEN r.grid.negative.polygon_objects_grid_coords ELSE None,
         negative_panel_row_by_polygon |->
             IF negatives THEN r.grid.negative.panel_row_by_polygon ELSE None,
         negative_panel_column_by_polygon |->
             IF negatives THEN r.grid.negative.panel_column_by_polygon ELSE None,
         negative_mask_matrix |-> IF negatives THEN r.mask.negative ELSE None]

RunWrite ==
    \E nan_as_int \in NanAsInt32Choices :
        LET a == RunWriteArguments(run)
            done == write_polygons(a, nan_as_int)
        IN  /\ run.pc = "write"
            /\ run' = RunAfter(run, <<"write_polygons", "all">>, done.outcome,
                               [pc |-> "done", sign |-> "all"])
            /\ fs' = FileSystemAfterWrite(fs, done)
            /\ written' = IF IsOk(done.outcome) THEN a ELSE written
            /\ open_datasets' = open_datasets + DatasetsLeftOpenByWrite(done.outcome)
            /\ UNCHANGED <<op, args, ret>>

NextRun == RunStart \/ RunCapture \/ RunMapper \/ RunMask \/ RunWrite

SpecRun == Init /\ [][NextRun]_vars

----------------------------------------------------------------------------
(* The order of the calls in one run of the script                         *)

StagesFor(sign) ==
    << <<"capture_polygons", sign>>,
       <<"polygons_from_pixel_to_grid_coords", sign>>,
       <<"polygons_to_mask", sign>> >>

ExpectedLog(positive_and_negative) ==
    StagesFor("positive")
        \o (IF positive_and_negative THEN StagesFor("negative") ELSE <<>>)
        \o << <<"write_polygons", "all">> >>

IsPrefix(s, t) == Len(s) <= Len(t) /\ SubSeq(t, 1, Len(s)) = s

RunStarted == run.pc # "not started"

\* C15: a run calls capture, mapper and rasterizer once each, in this order,
\* for the positive regions, then once each for the negative regions exactly
\* when positive_and_negative is set, and write_polygons once after all of
\* them: the calls made so far are always the beginning of that sequence, a
\* run that has finished has made all of them, and a run that is still going
\* has its next call at the position the sequence gives.
C15_StagesOnceInOrder ==
    RunStarted =>
        /\ IsPrefix(run.log, ExpectedLog(run.positive_and_negative))
        /\ run.pc = "done" => run.log = ExpectedLog(run.positive_and_negative)
        /\ run.pc = "write" =>
               Len(run.log) + 1 = Len(ExpectedLog(run.positive_and_negative))

C15_Witness ==
    /\ RunStarted
    /\ run.pc = "done"
    /\ run.positive_and_negative
    /\ Len(run.log) = 7
    /\ run.pixel.negative # <<>>

C15_WitnessPositiveOnly ==
    /\ RunStarted
    /\ run.pc = "done"
    /\ ~run.positive_and_negative
    /\ Len(run.log) = 4

----------------------------------------------------------------------------
(* A call of the run that raises                                           *)

Logged(stage) == \E k \in 1..Len(run.log) : run.log[k] = stage

RunRaised == RunStarted /\ run.raised # <<>>

\* C20: when a call of the run raises, the run makes no further call.  So
\* when a call before write_polygons raises, write_polygons is not called
\* and no file is produced, and when a call for the positive regions raises,
\* no negative regions are captured; a run whose image file is missing
\* never reaches write_polygons.
C20_NoWriteAfterFailure ==
    /\ RunRaised =>
        /\ run.pc = "failed"
        /\ Len(run.raised) = 1
        /\ run.log[Len(run.log)] = run.raised[1]
        /\ run.raised[1] # <<"write_polygons", "all">> =>
               /\ ~Logged(<<"write_polygons", "all">>)
               /\ ~fs.exists
               /\ ~fs.directory
               /\ written = <<>>
        /\ run.raised[1][2] = "positive" =>
               ~Logged(<<"capture_polygons", "negative">>)
    /\ (RunStarted /\ ~run.image_exists) => ~Logged(<<"write_polygons", "all">>)

\* the mapper has rejected a negative polygon after the positive regions
\* went through all three calls
C20_Witness ==
    /\ RunRaised
    /\ run.raised[1] = <<"polygons_from_pixel_to_grid_coords", "negative">>
    /\ Len(run.log) = 5
    /\ run.dims \in {DimsA, DimsB}
    /\ ~fs.exists

C20_WitnessPositiveMapper ==
    /\ RunRaised
    /\ run.raised[1] = <<"polygons_from_pixel_to_grid_coords", "positive">>
    /\ run.positive_and_negative
    /\ run.dims \in {DimsA, DimsB}

C20_WitnessCapture ==
    /\ RunRaised
    /\ run.raised[1] = <<"capture_polygons", "positive">>

----------------------------------------------------------------------------
(* The layout of the flat arrays that encode a polygon list                *)

\* number of ring vertices of the first k polygons
RECURSIVE VerticesBefore(_, _)
VerticesBefore(polys, k) ==
    IF k = 0 THEN 0 ELSE VerticesBefore(polys, k - 1) + Len(polys[k])

\* number of elements that precede the first vertex of polygon i (1-based)
\* when one separator stands after each earlier polygon
OffsetOf(polys, i) == VerticesBefore(polys, i - 1) + (i - 1)

\* C16: the three arrays returned by _polygon_list_to_vertex_list have the
\* same length; all are empty for the empty list; for N > 0 polygons the
\* length is the number of ring vertices plus N - 1, the vertices of polygon
\* i stand contiguously, in ring order and list order, tagged i, and the one
\* element between two consecutive polygons is (NaN, NaN, -1); no separator
\* stands first or last.
C16_EncoderLayout ==
    op = "polygon_list_to_vertex_list" =>
        LET polys == args.polygon_objects_grid_coords
            N == Len(polys)
            rows == ret.value.vertex_rows
            columns == ret.value.vertex_columns
            indices == ret.value.vertex_to_polygon_indices
        IN  /\ IsOk(ret)
            /\ Len(rows) = Len(columns)
            /\ Len(rows) = Len(indices)
            /\ N = 0 => Len(rows) = 0
            /\ N > 0 =>
                /\ Len(rows) = VerticesBefore(polys, N) + (N - 1)
                /\ \A i \in 1..N : \A j \in 1..Len(polys[i]) :
                       LET at == OffsetOf(polys, i) + j
                       IN  /\ rows[at] = polys[i][j][2]
                           /\ columns[at] = polys[i][j][1]
                           /\ indices[at] = i - 1
                /\ \A i \in 1..(N - 1) :
                       LET at == OffsetOf(polys, i + 1)
                       IN  /\ IsNaN(rows[at])
                           /\ IsNaN(columns[at])
                           /\ indices[at] = -1
                /\ indices[1] = 0
                /\ indices[Len(indices)] = N - 1
                /\ Cardinality({k \in 1..Len(indices) : indices[k] = -1}) = N - 1

\* a triangle (4 ring vertices) and a square (5) have been encoded in 10
\* elements with the separator in fifth place
C16_Witness ==
    /\ op = "polygon_list_to_vertex_list"
    /\ args.polygon_objects_grid_coords = <<Triangle, UnitSquare>>
    /\ Len(ret.value.vertex_rows) = 10
    /\ IsNaN(ret.value.vertex_rows[5])
    /\ ret.value.vertex_to_polygon_indices[5] = -1

----------------------------------------------------------------------------
(* Vertices on a panel boundary *)

\* the shifted coordinate u is exactly c * num_pixels / num_panels
OnBoundary(u, c, num_panels, num_pixels) ==
    /\ RLeq(RMul(u, RInt(num_panels)), RInt(c * num_pixels))
    /\ RLeq(RInt(c * num_pixels), RMul(u, RInt(num_panels)))

\* c * num_pixels / num_panels < u < (c + 1) * num_pixels / num_panels
StrictlyInside(u, c, num_panels, num_pixels) ==
    /\ RLt(RInt(c * num_pixels), RMul(u, RInt(num_panels)))
    /\ RLt(RMul(u, RInt(num_panels)), RInt((c + 1) * num_pixels))

Shifted(pixel_coords) ==
    [i \in 1..Len(pixel_coords) |-> RAdd(pixel_coords[i], Half)]

\* one vertex strictly inside panel c - 1 and another exactly on the
\* boundary between the panels c - 1 and c, for an interior boundary c
TouchesInteriorBoundary(pixel_coords, num_panels, num_pixels) ==
    \E c \in 1..(num_panels - 1) : \E i, j \in 1..Len(pixel_coords) :
        /\ StrictlyInside(Shifted(pixel_coords)[i], c - 1, num_panels, num_pixels)
        /\ OnBoundary(Shifted(pixel_coords)[j], c, num_panels, num_pixels)

\* one vertex exactly on the far edge of the image, every other vertex
\* there or strictly inside the last panel
TouchesFarEdge(pixel_coords, num_panels, num_pixels) ==
    /\ \E i \in 1..Len(pixel_coords) :
           OnBoundary(Shifted(pixel_coords)[i], num_panels, num_panels, num_pixels)
    /\ \A i \in 1..Len(pixel_coords) :
           \/ OnBoundary(Shifted(pixel_coords)[i], num_panels, num_panels, num_pixels)
           \/ StrictlyInside(Shifted(pixel_coords)[i], num_panels - 1, num_panels, num_pixels)

\* every vertex strictly inside the same panel
InsideOnePanel(pixel_coords, num_panels, num_pixels) ==
    \E c \in 0..(num_panels - 1) : \A i \in 1..Len(pixel_coords) :
        StrictlyInside(Shifted(pixel_coords)[i], c, num_panels, num_pixels)

\* the panel index returned for a polygon agrees with C18 for each of its
\* vertices that lies on a boundary
BoundaryVerticesInPanel(pixel_coords, panel, num_panels, num_pixels) ==
    \A i \in 1..Len(pixel_coords) :
        /\ \A c \in 1..(num_panels - 1) :
               OnBoundary(Shifted(pixel_coords)[i], c, num_panels, num_pixels)
                   => panel = c
        /\ OnBoundary(Shifted(pixel_coords)[i], num_panels, num_panels, num_pixels)
               => panel = num_panels - 1

\* C18: a vertex whose shifted coordinate is exactly c * num_pixels /
\* num_panels, 0 < c < num_panels, is assigned to panel c, and a vertex on
\* the far edge of the image to the last panel; so a call whose polygons are
\* all inside the image raises the multiple-panels error (for the first
\* polygon of the list if that is the one) when a polygon has one vertex
\* strictly inside panel c - 1 and another on the boundary c along the
\* columns or the rows, and is accepted with the last panel when every
\* polygon touches the far edge from inside the last panel along one axis
\* and does so, or is strictly inside one panel, along the other.
C18_BoundaryGoesToHigherPanel ==
    (op = "polygons_from_pixel_to_grid_coords" /\ ValidMapperCall(args)) =>
        LET d == args.dims
            polys == args.polygon_objects_pixel_coords
            interior(p) ==
                \/ TouchesInteriorBoundary(Xs(p), d.num_panel_columns, d.num_pixel_columns)
                \/ TouchesInteriorBoundary(Ys(p), d.num_panel_rows, d.num_pixel_rows)
            farColumns(p) == TouchesFarEdge(Xs(p), d.num_panel_columns, d.num_pixel_columns)
            farRows(p) == TouchesFarEdge(Ys(p), d.num_panel_rows, d.num_pixel_rows)
            far(p) ==
                /\ farColumns(p) \/ farRows(p)
                /\ farColumns(p) \/ InsideOnePanel(Xs(p), d.num_panel_columns, d.num_pixel_columns)
                /\ farRows(p) \/ InsideOnePanel(Ys(p), d.num_panel_rows, d.num_pixel_rows)
        IN  /\ IsOk(ret) =>
                \A k \in 1..Len(polys) :
                    /\ BoundaryVerticesInPanel(Xs(polys[k]),
                           ret.value.panel_column_by_polygon[k],
                           d.num_panel_columns, d.num_pixel_columns)
                    /\ BoundaryVerticesInPanel(Ys(polys[k]),
                           ret.value.panel_row_by_polygon[k],
                           d.num_panel_rows, d.num_pixel_rows)
            /\ (\E k \in 1..Len(polys) : interior(polys[k])) =>
                   Raised(ret, "ValueError")
            /\ (Len(polys) > 0 /\ interior(polys[1])) =>
                   ret.value.info.polygon = 1
            /\ (Len(polys) > 0 /\ \A k \in 1..Len(polys) : far(polys[k])) =>
                   /\ IsOk(ret)
                   /\ \A k \in 1..Len(polys) :
                          /\ farColumns(polys[k]) =>
                                 ret.value.panel_column_by_polygon[k] = d.num_panel_columns - 1
                          /\ farRows(polys[k]) =>
                                 ret.value.panel_row_by_polygon[k] = d.num_panel_rows - 1

\* the rectangle with shifted columns 2..3 on two panels of three pixel
\* columns: the vertices at 2 are strictly inside panel 0, those at 3 on the
\* boundary, and the call raised with the panel columns 0 and 1
C18_Witness ==
    /\ op = "polygons_from_pixel_to_grid_coords"
    /\ args.dims = DimsA
    /\ args.polygon_objects_pixel_coords = <<LeftOfThree>>
    /\ Raised(ret, "ValueError")
    /\ ret.value.info.axis = "columns"
    /\ Range(ret.value.info.panels) = {0, 1}

\* the rectangle touching the right and the bottom edge of the image was
\* accepted in the last panel column and the last panel row
C18_WitnessFarEdge ==
    /\ op = "polygons_from_pixel_to_grid_coords"
    /\ args.dims = DimsB
    /\ args.polygon_objects_pixel_coords = <<BottomRight>>
    /\ IsOk(ret)
    /\ ret.value.panel_column_by_polygon = <<2>>
    /\ ret.value.panel_row_by_polygon = <<1>>

\* a unit rectangle with its left side on the boundary was accepted in the
\* higher panel
C18_WitnessAccepted ==
    /\ op = "polygons_from_pixel_to_grid_coords"
    /\ args.dims = DimsA
    /\ args.polygon_objects_pixel_coords = <<PixelRect(RInt(3), RInt(0), RInt(4), RInt(1))>>
    /\ IsOk(ret)
    /\ ret.value.panel_column_by_polygon = <<1>>

----------------------------------------------------------------------------
(* The order of the polygon list *)

\* the orders (permutations) of 1..n
OrdersOf(n) ==
    {p \in [1..n -> 1..n] : \A i, j \in 1..n : p[i] = p[j] => i = j}

\* the sequence s in the order p
Permuted(s, p) == [i \in 1..Len(s) |-> s[p[i]]]

\* polygons_to_mask called on the arguments a with the polygon list and both
\* panel arrays in the order p
CallInOrder(a, p) ==
    polygons_to_mask(Permuted(a.polygon_objects_grid_coords, p),
                     a.num_grid_rows, a.num_grid_columns,
                     a.num_panel_rows, a.num_panel_columns,
                     Permuted(a.panel_row_by_polygon, p),
                     Permuted(a.panel_column_by_polygon, p))

\* C19: whatever order the polygon list is given in, the two panel arrays in
\* the same order, polygons_to_mask returns the same mask when the call
\* succeeds and raises a validation error when the call does, as it does
\* whenever some polygon is out of the grid envelope.
C19_OrderDoesNotMatter ==
    (/\ op = "polygons_to_mask"
     /\ Len(args.panel_row_by_polygon) = Len(args.polygon_objects_grid_coords)
     /\ Len(args.panel_column_by_polygon) = Len(args.polygon_objects_grid_coords))
        => \A p \in OrdersOf(Len(args.polygon_objects_grid_coords)) :
               /\ IsOk(ret) => CallInOrder(args, p) = ret
               /\ Raised(ret, "validation") =>
                      Raised(CallInOrder(args, p), "validation")
               /\ (\E k \in 1..Len(args.polygon_objects_grid_coords) :
                       ~InEnvelope(args.polygon_objects_grid_coords[k], args))
                      => Raised(CallInOrder(args, p), "validation")

\* FullSquare before Triangle in one panel of 3 x 3 cells: cell (0, 2) is in
\* the triangle only and comes after two cells of its row that the square
\* has marked; the call in the other order returned the same mask
C19_Witness ==
    /\ op = "polygons_to_mask"
    /\ args.polygon_objects_grid_coords = <<FullSquare, Triangle>>
    /\ args.panel_row_by_polygon = <<0, 0>>
    /\ args.panel_column_by_polygon = <<1, 1>>
    /\ args.num_grid_rows = 3 /\ args.num_grid_columns = 3
    /\ IsOk(ret)
    /\ ret.value[0][1][0][0] /\ ret.value[0][1][0][1] /\ ret.value[0][1][0][2]
    /\ ~point_in_or_on_polygon(FullSquare, RInt(2), RInt(0))
    /\ CallInOrder(args, <<2, 1>>) = ret

\* Outside before FullSquare, which marks every cell of the 2 x 2 grid: the
\* call raised, and so did the call in the other order
C19_WitnessOutOfEnvelope ==
    /\ op = "polygons_to_mask"
    /\ args.polygon_objects_grid_coords = <<Outside, FullSquare>>
    /\ args.panel_row_by_polygon = <<1, 1>>
    /\ args.panel_column_by_polygon = <<0, 0>>
    /\ args.num_grid_rows = 2 /\ args.num_grid_columns = 2
    /\ Raised(ret, "validation")
    /\ Raised(CallInOrder(args, <<2, 1>>), "validation")

----------------------------------------------------------------------------
(* float64 with its rounding.  A double is <<sign, m, e>>: the value       *)
(* sign * m * 2^e, where the significand m is a natural number of exactly  *)
(* DoubleBits bits written as a sequence of limbs (base Limb, least        *)
(* significant first), or the empty sequence for zero.  Every operation    *)
(* rounds its exact result to nearest, ties to even (IEEE 754); exponent   *)
(* overflow and subnormal numbers are out of the range of the values used. *)

DoubleBits == 53
LimbBits == 15
Limb == 32768

RECURSIVE BigFromInt(_)
BigFromInt(n) == IF n = 0 THEN <<>> ELSE <<n % Limb>> \o BigFromInt(n \div Limb)

RECURSIVE BigToInt(_)
BigToInt(a) == IF a = <<>> THEN 0 ELSE a[1] + Limb * BigToInt(Tail(a))

RECURSIVE BigTrim(_)
BigTrim(a) ==
    IF a = <<>> THEN <<>>
    ELSE IF a[Len(a)] = 0 THEN BigTrim(SubSeq(a, 1, Len(a) - 1))
    ELSE a

RestOf(a) == IF a = <<>> THEN <<>> ELSE Tail(a)
LowOf(a) == IF a = <<>> THEN 0 ELSE a[1]

RECURSIVE BigAddFrom(_, _, _)
BigAddFrom(a, b, carry) ==
    IF a = <<>> /\ b = <<>>
    THEN IF carry = 0 THEN <<>> ELSE <<carry>>
    ELSE LET t == LowOf(a) + LowOf(b) + carry
         IN  <<t % Limb>> \o BigAddFrom(RestOf(a), RestOf(b), t \div Limb)

BigAdd(a, b) == BigAddFrom(a, b, 0)

\* a - b for a >= b
RECURSIVE BigSubFrom(_, _, _)
BigSubFrom(a, b, borrow) ==
    IF a = <<>> THEN <<>>
    ELSE LET t == a[1] - LowOf(b) - borrow
         IN  IF t < 0
             THEN <<t + Limb>> \o BigSubFrom(Tail(a), RestOf(b), 1)
             ELSE <<t>> \o BigSubFrom(Tail(a), RestOf(b), 0)

BigSub(a, b) == BigTrim(BigSubFrom(a, b, 0))

RECURSIVE BigCmpFrom(_, _, _)
BigCmpFrom(a, b, i) ==
    IF i = 0 THEN 0
    ELSE IF a[i] < b[i] THEN -1
    ELSE IF a[i] > b[i] THEN 1
    ELSE BigCmpFrom(a, b, i - 1)

\* -1, 0 or 1 as a < b, a = b or a > b
BigCmp(a, b) ==
    IF Len(a) < Len(b) THEN -1
    ELSE IF Len(a) > Len(b) THEN 1
    ELSE BigCmpFrom(a, b, Len(a))

\* a * n + carry for 0 <= n < Limb
RECURSIVE BigMulSmallFrom(_, _, _)
BigMulSmallFrom(a, n, carry) ==
    IF a = <<>> THEN BigFromInt(carry)
    ELSE LET t == a[1] * n + carry
         IN  <<t % Limb>> \o BigMulSmallFrom(Tail(a), n, t \div Limb)

BigMulSmall(a, n) == BigTrim(BigMulSmallFrom(a, n, 0))

RECURSIVE BigMul(_, _)
BigMul(a, b) ==
    IF a = <<>> \/ b = <<>> THEN <<>>
    ELSE BigAdd(BigMulSmall(a, b[1]), BigTrim(<<0>> \o BigMul(a, Tail(b))))

\* quotient and remainder of (rem * Limb^Len(a) + a) by n, for rem < n < Limb
RECURSIVE BigDivSmallFrom(_, _, _)
BigDivSmallFrom(a, n, rem) ==
    IF a = <<>> THEN [q |-> <<>>, r |-> rem]
    ELSE LET cur == rem * Limb + a[Len(a)]
             lower == BigDivSmallFrom(SubSeq(a, 1, Len(a) - 1), n, cur % n)
         IN  [q |-> Append(lower.q, cur \div n), r |-> lower.r]

TrimQuotient(d) == [q |-> BigTrim(d.q), r |-> d.r]

BigDivSmall(a, n) == TrimQuotient(BigDivSmallFrom(a, n, 0))

RECURSIVE BitLength(_)
BitLength(n) == IF n = 0 THEN 0 ELSE 1 + BitLength(n \div 2)

BigBitLength(a) ==
    IF a = <<>> THEN 0 ELSE LimbBits * (Len(a) - 1) + BitLength(a[Len(a)])

\* a * 2^k
BigShiftLeft(a, k) ==
    IF a = <<>> THEN <<>>
    ELSE [i \in 1..(k \div LimbBits) |-> 0] \o BigMulSmall(a, Pow2(k % LimbBits))

\* the quotient d.q of the upper limbs of a, and whether a bit was lost in
\* the division or in the lower limbs
WithSticky(d, a, limbs) ==
    [q |-> d.q, sticky |-> d.r # 0 \/ \E i \in 1..limbs : a[i] # 0]

\* floor(a / 2^k), and whether a bit was shifted out
BigShiftRight(a, k) ==
    IF k \div LimbBits >= Len(a)
    THEN [q |-> <<>>, sticky |-> a # <<>>]
    ELSE WithSticky(BigDivSmall(SubSeq(a, k \div LimbBits + 1, Len(a)),
                                Pow2(k % LimbBits)),
                    a, k \div LimbBits)

DZero == <<1, <<>>, 0>>

\* a significand that rounding carried to DoubleBits + 1 bits is a power of
\* two: one bit less, one exponent more
DRenormalise(sign, rounded, e) ==
    IF BigBitLength(rounded) > DoubleBits
    THEN <<sign, BigDivSmall(rounded, 2).q, e + 1>>
    ELSE <<sign, rounded, e>>

\* halved.q holds the DoubleBits kept bits and halved.r the first bit dropped;
\* sticky says that a later bit is set.  Round to nearest, ties to even.
DRoundHalved(sign, halved, e, sticky) ==
    DRenormalise(sign,
                 IF halved.r = 1 /\ (sticky \/ halved.q[1] % 2 = 1)
                 THEN BigAdd(halved.q, <<1>>)
                 ELSE halved.q,
                 e)

\* kept.q holds DoubleBits + 1 bits
DRoundKept(sign, kept, e, inexact) ==
    DRoundHalved(sign, BigDivSmall(kept.q, 2), e, inexact \/ kept.sticky)

DRoundBits(sign, m, e, inexact, bits) ==
    IF bits <= DoubleBits
    THEN <<sign, BigShiftLeft(m, DoubleBits - bits), e - (DoubleBits - bits)>>
    ELSE DRoundKept(sign, BigShiftRight(m, bits - DoubleBits - 1),
                    e + (bits - DoubleBits), inexact)

\* the double nearest to sign * (m + f) * 2^e, where 0 <= f < 1 and inexact
\* says that f > 0 (then m has more than DoubleBits bits); ties to even
DRound(sign, m, e, inexact) ==
    IF m = <<>> THEN DZero ELSE DRoundBits(sign, m, e, inexact, BigBitLength(m))

DFromInt(n) == DRound(IF n < 0 THEN -1 ELSE 1, BigFromInt(Abs(n)), 0, FALSE)

DNeg(a) == IF a[2] = <<>> THEN a ELSE <<-a[1], a[2], a[3]>>

DSign(a) == IF a[2] = <<>> THEN 0 ELSE a[1]

\* sa * ma * 2^e + sb * mb * 2^e, where c compares ma with mb
DAddCompared(sa, ma, sb, mb, e, c) ==
    DRound(IF sa = sb \/ c > 0 THEN sa ELSE sb,
           IF sa = sb THEN BigAdd(ma, mb)
           ELSE IF c > 0 THEN BigSub(ma, mb)
           ELSE BigSub(mb, ma),
           e, FALSE)

DAddAligned(sa, ma, sb, mb, e) ==
    DAddCompared(sa, ma, sb, mb, e, BigCmp(ma, mb))

DAddAt(a, b, e) ==
    DAddAligned(a[1], BigShiftLeft(a[2], a[3] - e),
                b[1], BigShiftLeft(b[2], b[3] - e), e)

DAdd(a, b) ==
    IF a[2] = <<>> THEN b
    ELSE IF b[2] = <<>> THEN a
    ELSE DAddAt(a, b, IF a[3] < b[3] THEN a[3] ELSE b[3])

DMul(a, b) == DRound(a[1] * b[1], BigMul(a[2], b[2]), a[3] + b[3], FALSE)

DRoundQuotient(sign, d, e) == DRound(sign, d.q, e, d.r # 0)

\* a / n for an integer 0 < n < Limb (every division of the code is by an
\* integer count): LimbBits + 2 more bits of the dividend give a quotient of
\* more than DoubleBits + 1 bits
DDivInt(a, n) ==
    IF a[2] = <<>> THEN DZero
    ELSE DRoundQuotient(a[1], BigDivSmall(BigShiftLeft(a[2], LimbBits + 2), n),
                        a[3] - (LimbBits + 2))

\* floor of sign * (d.q + f), where d.sticky says that f > 0
FloorShifted(sign, d) ==
    IF sign = 1 THEN BigToInt(d.q)
    ELSE -(BigToInt(d.q) + (IF d.sticky THEN 1 ELSE 0))

\* the integer numpy.floor(a).astype(int)
DFloor(a) ==
    IF a[2] = <<>> THEN 0
    ELSE IF a[3] >= 0 THEN a[1] * BigToInt(BigShiftLeft(a[2], a[3]))
    ELSE FloorShifted(a[1], BigShiftRight(a[2], -a[3]))

DSub(a, b) == DAdd(a, DNeg(b))
DLeq(a, b) == DSign(DSub(a, b)) <= 0

\* 0.5 = 2^(DoubleBits - 1) * 2^(-DoubleBits)
DHalf == <<1, BigShiftLeft(<<1>>, DoubleBits - 1), -DoubleBits>>

----------------------------------------------------------------------------
(* The mapper in float64: the same lines as MapAxis, MapOnePolygon and     *)
(* MapperLoop, every operation rounded as numpy rounds it.                 *)

AllGeq64(values, bound) == \A i \in 1..Len(values) : DLeq(bound, values[i])
AllLeq64(values, bound) == \A i \in 1..Len(values) : DLeq(values[i], bound)

\* i * float(num_pixels) / num_panels
panel_to_first_px64(i, num_pixels, num_panels) ==
    DDivInt(DMul(DFromInt(i), DFromInt(num_pixels)), num_panels)

\* the value num_panels replaced by num_panels - 1 (lines 377-379, 412-414)
ClampPanel(raw, num_panels) == IF raw = num_panels THEN num_panels - 1 ELSE raw

\* floor(these_pixels * float(num_panels) / num_pixels), clamped
PanelIndices64(these_pixels, num_panels, num_pixels) ==
    [i \in 1..Len(these_pixels) |->
        ClampPanel(DFloor(DDivInt(DMul(these_pixels[i], DFromInt(num_panels)),
                                  num_pixels)),
                   num_panels)]

\* -0.5 + (these_pixels - first_px) * float(num_grid * num_panels) / num_pixels
GridCoords64(these_pixels, first_px, num_grid, num_pixels, num_panels) ==
    [i \in 1..Len(these_pixels) |->
        DAdd(DNeg(DHalf),
             DDivInt(DMul(DSub(these_pixels[i], first_px),
                          DFromInt(num_grid * num_panels)),
                     num_pixels))]

\* the axis from the panel indices on
MapAxisPanels64(these_pixels, these_panels, num_grid, num_pixels, num_panels) ==
    IF Cardinality(Range(these_panels)) > 1
    THEN [outcome |-> "multiple", panels |-> these_panels]
    ELSE [outcome |-> "ok",
          panel |-> these_panels[1],
          grid |-> GridCoords64(these_pixels,
                       panel_to_first_px64(these_panels[1], num_pixels, num_panels),
                       num_grid, num_pixels, num_panels)]

\* the axis from the shifted coordinates 0.5 + xy on
MapAxisShifted64(these_pixels, num_grid, num_pixels, num_panels) ==
    IF \/ ~AllGeq64(these_pixels, DZero)
       \/ ~AllLeq64(these_pixels, DFromInt(num_pixels))
    THEN [outcome |-> "outside"]
    ELSE MapAxisPanels64(these_pixels,
                         PanelIndices64(these_pixels, num_panels, num_pixels),
                         num_grid, num_pixels, num_panels)

\* lines 368-401 for x, 403-436 for y
MapAxis64(pixel_coords, num_grid, num_pixels, num_panels) ==
    MapAxisShifted64([i \in 1..Len(pixel_coords) |-> DAdd(DHalf, pixel_coords[i])],
                     num_grid, num_pixels, num_panels)

\* lines 381-390, 416-425 and 438-443, from the two axes of polygon k
MapBothAxes64(columns, rows, k, num_grid_rows) ==
    IF columns.outcome = "outside" THEN Raise("validation", "pixel column")
    ELSE IF columns.outcome = "multiple"
    THEN MultiplePanelsError(k, "columns", columns.panels)
    ELSE IF rows.outcome = "outside" THEN Raise("validation", "pixel row")
    ELSE IF rows.outcome = "multiple"
    THEN MultiplePanelsError(k, "rows", rows.panels)
    ELSE Return([polygon |->
                     vertex_arrays_to_polygon(columns.grid,
                         [i \in 1..Len(rows.grid) |->
                             DSub(DFromInt(num_grid_rows - 1), rows.grid[i])]),
                 panel_row |-> rows.panel, panel_column |-> columns.panel])

\* lines 366-443 for polygon k, counted from 0
MapOnePolygon64(polygon, k, num_grid_rows, num_grid_columns, num_pixel_rows, num_pixel_columns, num_panel_rows, num_panel_columns) ==
    MapBothAxes64(MapAxis64(Xs(polygon), num_grid_columns, num_pixel_columns, num_panel_columns),
                  MapAxis64(Ys(polygon), num_grid_rows, num_pixel_rows, num_panel_rows),
                  k, num_grid_rows)

\* the loop of lines 366-443 from polygon k on, given the result of polygon k
RECURSIVE MapperLoop64(_, _, _, _, _, _, _, _, _)
MapperNext64(one, polygon_objects_pixel_coords, k, done, num_grid_rows, num_grid_columns, num_pixel_rows, num_pixel_columns, num_panel_rows, num_panel_columns) ==
    IF ~IsOk(one) THEN one
    ELSE MapperLoop64(polygon_objects_pixel_coords, k + 1,
                      Append(done, one.value), num_grid_rows,
                      num_grid_columns, num_pixel_rows, num_pixel_columns,
                      num_panel_rows, num_panel_columns)

MapperLoop64(polygon_objects_pixel_coords, k, done, num_grid_rows, num_grid_columns, num_pixel_rows, num_pixel_columns, num_panel_rows, num_panel_columns) ==
    IF k >= Len(polygon_objects_pixel_coords)
    THEN Return([polygon_objects_grid_coords |->
                     [i \in 1..Len(done) |-> done[i].polygon],
                 panel_row_by_polygon |->
                     [i \in 1..Len(done) |-> done[i].panel_row],
                 panel_column_by_polygon |->
                     [i \in 1..Len(done) |-> done[i].panel_column]])
    ELSE MapperNext64(MapOnePolygon64(polygon_objects_pixel_coords[k + 1], k,
                          num_grid_rows, num_grid_columns, num_pixel_rows,
                          num_pixel_columns, num_panel_rows, num_panel_columns),
                      polygon_objects_pixel_coords, k, done, num_grid_rows,
                      num_grid_columns, num_pixel_rows, num_pixel_columns,
                      num_panel_rows, num_panel_columns)

Mapper64(polys, d) ==
    IF ~IsOk(CheckMapperDims(d.num_grid_rows, d.num_grid_columns, d.num_pixel_rows, d.num_pixel_columns, d.num_panel_rows, d.num_panel_columns))
    THEN CheckMapperDims(d.num_grid_rows, d.num_grid_columns, d.num_pixel_rows, d.num_pixel_columns, d.num_panel_rows, d.num_panel_columns)
    ELSE IF Len(polys) = 0 THEN Return(EmptyMapperResult)
    ELSE MapperLoop64(polys, 0, <<>>, d.num_grid_rows, d.num_grid_columns,
                      d.num_pixel_rows, d.num_pixel_columns,
                      d.num_panel_rows, d.num_panel_columns)

\* The four checks of one polygon at lines 206-221, on doubles.
CheckGridEnvelope64(this, num_grid_rows, num_grid_columns) ==
    IF ~AllGeq64(Xs(this), DNeg(DHalf))
    THEN Raise("validation", "grid column < -0.5")
    ELSE IF ~AllLeq64(Xs(this), DSub(DFromInt(num_grid_columns), DHalf))
    THEN Raise("validation", "grid column > num_grid_columns - 0.5")
    ELSE IF ~AllGeq64(Ys(this), DNeg(DHalf))
    THEN Raise("validation", "grid row < -0.5")
    ELSE IF ~AllLeq64(Ys(this), DSub(DFromInt(num_grid_rows), DHalf))
    THEN Raise("validation", "grid row > num_grid_rows - 0.5")
    ELSE Ok

----------------------------------------------------------------------------
(* Calls of the mapper with double coordinates next to a panel boundary    *)

\* a moved by j units in the last place of its significand
DStep(a, j) ==
    IF j = 0 THEN a
    ELSE DAdd(a, DRound(IF j < 0 THEN -1 ELSE 1, BigFromInt(Abs(j)), a[3], FALSE))

\* shifted coordinates j units in the last place away from the first pixel
\* of panel 1 or 2 of three panels that tile five pixels
NearBoundary64 ==
    {DStep(panel_to_first_px64(c, 5, 3), j) : c \in 1..2, j \in -1..1}

\* the triangle (x, y), (x1, y), (x1, y1), or its transpose
TriangleFrom64(x, x1, y, y1, alongColumns) ==
    IF alongColumns
    THEN Ring(<< <<x, y>>, <<x1, y>>, <<x1, y1>> >>)
    ELSE Ring(<< <<y, x>>, <<y, x1>>, <<y1, x1>> >>)

OnePixelOn64(x) == DAdd(x, DFromInt(1))

\* the pixel-space triangle whose first vertex has the coordinate x along
\* the columns (or the rows), its other vertices one pixel further on
TriangleWith64(x, alongColumns) ==
    TriangleFrom64(x, OnePixelOn64(x), DHalf, OnePixelOn64(DHalf), alongColumns)

\* the same for the shifted coordinate u = 0.5 + x
TriangleAt64(u, alongColumns) == TriangleWith64(DSub(u, DHalf), alongColumns)

PixelPolygonChoices64 ==
    {TriangleAt64(u, alongColumns) : u \in NearBoundary64, alongColumns \in BOOLEAN}

PixelPolygonLists64 == SeqsUpTo(PixelPolygonChoices64, MaxPolygons)

\* three panel columns on five pixel columns; three panel rows on five
\* pixel rows; two panel columns on six pixel columns
Dims64Columns == MapperDims(2, 3, 4, 5, 1, 3)
Dims64Rows == MapperDims(3, 2, 5, 4, 3, 1)
MapperDimChoices64 == {Dims64Columns, Dims64Rows, DimsA}

CallPolygonsFromPixelToGridCoords64 ==
    \E d \in MapperDimChoices64, polys \in PixelPolygonLists64 :
        /\ op = "none"
        /\ op' = "polygons_from_pixel_to_grid_coords"
        /\ args' = [polygon_objects_pixel_coords |-> polys, dims |-> d]
        /\ ret' = Mapper64(polys, d)
        /\ UNCHANGED <<fs, written, open_datasets, run>>

NextMapper64 == CallPolygonsFromPixelToGridCoords64

SpecMapper64 == Init /\ [][NextMapper64]_vars

\* what polygons_to_mask validates before it looks at any grid cell
\* (_check_polygons, and lines 206-221 for each polygon)
PassesRasterizerChecks64(result, d) ==
    /\ IsOk(check_polygons(result.polygon_objects_grid_coords,
                           d.num_panel_rows, d.num_panel_columns,
                           result.panel_row_by_polygon,
                           result.panel_column_by_polygon))
    /\ \A k \in 1..Len(result.polygon_objects_grid_coords) :
           IsOk(CheckGridEnvelope64(result.polygon_objects_grid_coords[k],
                                    d.num_grid_rows, d.num_grid_columns))

\* C17: whenever the mapper returns, every vertex it returns has its grid
\* column in [-0.5, num_grid_columns - 0.5] and its grid row in
\* [-0.5, num_grid_rows - 0.5], every panel row is in 0..num_panel_rows - 1
\* and every panel column in 0..num_panel_columns - 1, the three results
\* have one entry per polygon, and so the checks of polygons_to_mask with
\* the same dimensions pass.
C17_MapperOutputPassesRasterizerChecks ==
    (op = "polygons_from_pixel_to_grid_coords" /\ IsOk(ret)) =>
        LET d == args.dims
            n == Len(args.polygon_objects_pixel_coords)
            polys == ret.value.polygon_objects_grid_coords
        IN  /\ Len(polys) = n
            /\ Len(ret.value.panel_row_by_polygon) = n
            /\ Len(ret.value.panel_column_by_polygon) = n
            /\ \A k \in 1..n :
                   /\ ret.value.panel_row_by_polygon[k] \in 0..(d.num_panel_rows - 1)
                   /\ ret.value.panel_column_by_polygon[k] \in 0..(d.num_panel_columns - 1)
                   /\ AllGeq64(Xs(polys[k]), DNeg(DHalf))
                   /\ AllLeq64(Xs(polys[k]), DSub(DFromInt(d.num_grid_columns), DHalf))
                   /\ AllGeq64(Ys(polys[k]), DNeg(DHalf))
                   /\ AllLeq64(Ys(polys[k]), DSub(DFromInt(d.num_grid_rows), DHalf))
            /\ PassesRasterizerChecks64(ret.value, d)

====
